---------------------------- MODULE Spec2Model ----------------------------
(* Wire-network topology engine of QSchematic (Scene, Connector).          *)
(* Coordinates are grid-snapped integers; point indices are 0-based as in  *)
(* the source (sequence position = index + 1).                             *)
EXTENDS Integers, Naturals, Sequences, FiniteSets, TLC

(* ------------------------------ bounds -------------------------------- *)
NumWires == 3
NumNodes == 2
GridX == 3
GridY == 1
MaxOps == 4
MaxNodeOps == 3
MaxDrawOps == 5
MaxHighlightOps == 7
MaxConnectorOps == 4
MaxIndex == 4
MaxDragOps == 7
NumItems == 2
MaxItemOps == 6
MaxLongOps == 3

Wires == 1..NumWires
Nodes == 1..NumNodes
NetIds == 1..(2 * NumWires + 2)
Grid == (0..GridX) \X (0..GridY)
NoWire == 0
NoNet == 0

(* ----------------------------- variables ------------------------------ *)
VARIABLES wires, nets, netw, nodes, conns, last, ops, mode, newWire, newSeg, wnets,
          drag, undoStack, itemList, keepAlive, timers
vars == <<wires, nets, netw, nodes, conns, last, ops, mode, newWire, newSeg, wnets,
          drag, undoStack, itemList, keepAlive, timers>>
\* the state of a drag and of the history; the item list, the keep-alive
\* list and the pending deferred clears
dragVars == <<drag, undoStack>>
itemVars == <<itemList, keepAlive, timers>>

(* ------------------------------ helpers ------------------------------- *)
InSeq(s, e) == \E k \in 1..Len(s) : s[k] = e
RemoveAll(s, e) == SelectSeq(s, LAMBDA x : x # e)
Min(S) == CHOOSE m \in S : \A o \in S : m <= o
PAdd(a, b) == <<a[1] + b[1], a[2] + b[2]>>
PSub(a, b) == <<a[1] - b[1], a[2] - b[2]>>
Dot(a, b) == a[1] * b[1] + a[2] * b[2]
Cross(a, b) == a[1] * b[2] - a[2] * b[1]
\* squared length of QVector2D(a - b); "length() < 1" is Dist2 < 1
Dist2(a, b) == Dot(PSub(a, b), PSub(a, b))

\* distance from p to the segment ab is < 1
PointOnSegment(a, b, p) ==
    LET d == PSub(b, a)
        v == PSub(p, a)
        len2 == Dot(d, d)
        t == Dot(v, d)
    IN  IF len2 = 0 THEN Dist2(p, a) < 1
        ELSE IF t <= 0 THEN Dist2(p, a) < 1
        ELSE IF t >= len2 THEN Dist2(p, b) < 1
        ELSE Cross(d, v) * Cross(d, v) < len2

\* Wire::wirePointsAbsolute / pointsAbsolute: local points plus the origin
PointsAbsolute(w) == [k \in 1..Len(w.pts) |-> [p |-> PAdd(w.pos, w.pts[k].p), j |-> w.pts[k].j]]
AbsAt(w, i) == PAdd(w.pos, w.pts[i + 1].p)
Count(w) == Len(w.pts)

\* Wire::pointIsOnWire: on some segment, not on an endpoint of the polyline
PointIsOnWire(w, p) ==
    /\ Count(w) >= 2
    /\ p # AbsAt(w, 0)
    /\ p # AbsAt(w, Count(w) - 1)
    /\ \E k \in 1..(Count(w) - 1) : PointOnSegment(AbsAt(w, k - 1), AbsAt(w, k), p)

\* QVector::indexOf on points, compared by coordinate; -1 when absent
IndexOfPoint(pts, p) ==
    IF \E k \in 1..Len(pts) : pts[k].p = p
    THEN Min({k \in 1..Len(pts) : pts[k].p = p}) - 1
    ELSE -1

\* Wire::junctions: the absolute points flagged as junction, in order
Junctions(w) == SelectSeq(PointsAbsolute(w), LAMBDA q : q.j)

\* Wire::setPointIsJunction
SetPointIsJunction(w, i, b) ==
    IF i < 0 \/ i >= Count(w) THEN w
    ELSE [w EXCEPT !.pts[i + 1].j = b]

\* Wire::movePointTo: repositions point i (absolute target), nothing else
MovePointTo(w, i, p) ==
    IF i < 0 \/ i >= Count(w) THEN w
    ELSE [w EXCEPT !.pts[i + 1].p = PSub(p, w.pos)]

\* Wire::movePointBy
MovePointBy(w, i, d) ==
    IF i < 0 \/ i >= Count(w) THEN w
    ELSE [w EXCEPT !.pts[i + 1].p = PAdd(w.pts[i + 1].p, d)]


(* ------------------------ scene state threading ------------------------ *)
\* The handlers below take and return a scene record
\*   [wires, nets, netw, nodes, conns]
\* wires[w] = [st, pos, pts, conn, net], netw[n] = the wire list of net n,
\* nets = Scene::_nets, conns[n] = the binding of the connector of node n.
Scene == [wires |-> wires, nets |-> nets, netw |-> netw, nodes |-> nodes, conns |-> conns]

\* std::make_shared<WireNet>(): an identity no live object uses
NewNetId(s) ==
    Min({n \in NetIds : ~InSeq(s.nets, n) /\ \A w \in Wires : s.wires[w].net # n})

\* WireNet::addWire: appends the wire and re-points its net membership
NetAddWire(s, n, w) ==
    [s EXCEPT !.netw[n] = Append(@, w), !.wires[w].net = n]

\* WireNet::removeWire
NetRemoveWire(s, n, w) ==
    [s EXCEPT !.netw[n] = RemoveAll(@, w)]

\* Scene::addWireNet
AddWireNet(s, n) == [s EXCEPT !.nets = Append(@, n)]

\* Scene::removeWireNet
RemoveWireNet(s, n) == [s EXCEPT !.nets = RemoveAll(@, n)]

\* Scene::wires(): the wires of every net, in net order
RECURSIVE ConcatNets(_, _)
ConcatNets(s, ns) ==
    IF ns = <<>> THEN <<>> ELSE s.netw[Head(ns)] \o ConcatNets(s, Tail(ns))
SceneWires(s) == ConcatNets(s, s.nets)

\* Scene::netFromWire: the first net of the list holding the wire
NetFromWire(s, w) ==
    IF \E k \in 1..Len(s.nets) : InSeq(s.netw[s.nets[k]], w)
    THEN s.nets[Min({k \in 1..Len(s.nets) : InSeq(s.netw[s.nets[k]], w)})]
    ELSE NoNet

\* Wire::connectWire / Wire::disconnectWire on the connected set
WireConnect(s, w, o) == [s EXCEPT !.wires[w].conn = @ \cup {o}]
WireDisconnect(s, w, o) == [s EXCEPT !.wires[w].conn = @ \ {o}]

\* Scene::mergeNets, the loop that moves the wires of otherNet into net
RECURSIVE MergeLoop(_, _, _, _)
MergeLoop(s, net, otherNet, ws) ==
    IF ws = <<>> THEN s
    ELSE MergeLoop(NetRemoveWire(NetAddWire(s, net, Head(ws)), otherNet, Head(ws)),
                   net, otherNet, Tail(ws))

\* a merge without the same-net test
MergeNetsAlways(s, net, otherNet) ==
    [s |-> MergeLoop(s, net, otherNet, s.netw[otherNet]), merged |-> TRUE]

\* Scene::mergeNets
MergeNets(s, net, otherNet) ==
    IF net = otherNet THEN [s |-> s, merged |-> FALSE]
    ELSE [s |-> MergeLoop(s, net, otherNet, s.netw[otherNet]), merged |-> TRUE]

\* a connect that leaves the merged net in the net list
ConnectWireKeepNet(s, wire, rawWire) ==
    LET s1 == WireConnect(s, wire, rawWire)
    IN  MergeNets(s1, NetFromWire(s1, wire), NetFromWire(s1, rawWire)).s

\* a connect that records the connection in the joined wire, not in the host
ConnectWireReversed(s, wire, rawWire) ==
    LET s1 == WireConnect(s, rawWire, wire)
        net == NetFromWire(s1, wire)
        otherNet == NetFromWire(s1, rawWire)
        m == MergeNets(s1, net, otherNet)
    IN  IF m.merged THEN RemoveWireNet(m.s, otherNet) ELSE m.s

\* Scene::connectWire(wire, rawWire): wire records rawWire, nets are merged
ConnectWire(s, wire, rawWire) ==
    LET s1 == WireConnect(s, wire, rawWire)
        net == NetFromWire(s1, wire)
        otherNet == NetFromWire(s1, rawWire)
        m == MergeNets(s1, net, otherNet)
    IN  IF m.merged THEN RemoveWireNet(m.s, otherNet) ELSE m.s

\* Scene::wiresConnectedTo: one round collects the wires of the net that are
\* connected, in either direction, to a wire already listed
NewList(s, cw, netws) ==
    SelectSeq(netws, LAMBDA o :
        /\ ~InSeq(cw, o)
        /\ \E k \in 1..Len(cw) : o \in s.wires[cw[k]].conn \/ cw[k] \in s.wires[o].conn)

RECURSIVE ConnectedClosure(_, _, _)
ConnectedClosure(s, cw, netws) ==
    LET nl == NewList(s, cw, netws)
    IN  IF nl = <<>> THEN cw ELSE ConnectedClosure(s, cw \o nl, netws)

WiresConnectedTo(s, w) == ConnectedClosure(s, <<w>>, s.netw[s.wires[w].net])

\* a split that forgets to take the moved wires out of the old net
RECURSIVE SplitLoopKeep(_, _, _, _, _)
SplitLoopKeep(s, net, newNet, oldWires, ws) ==
    IF ws = <<>> THEN s
    ELSE IF InSeq(oldWires, Head(ws)) THEN SplitLoopKeep(s, net, newNet, oldWires, Tail(ws))
    ELSE SplitLoopKeep(NetAddWire(s, newNet, Head(ws)), net, newNet, oldWires, Tail(ws))

\* Scene::disconnectWire, the loop that moves the wires not in oldWires
RECURSIVE SplitLoop(_, _, _, _, _)
SplitLoop(s, net, newNet, oldWires, ws) ==
    IF ws = <<>> THEN s
    ELSE IF InSeq(oldWires, Head(ws)) THEN SplitLoop(s, net, newNet, oldWires, Tail(ws))
    ELSE SplitLoop(NetRemoveWire(NetAddWire(s, newNet, Head(ws)), net, Head(ws)),
                   net, newNet, oldWires, Tail(ws))

\* a disconnect that updates the connected set and leaves the nets alone
DisconnectWireNoSplit(s, wire, otherWire) == WireDisconnect(s, otherWire, wire)

\* Scene::disconnectWire(wire, otherWire): otherWire forgets wire; the wires
\* no longer connected to otherWire go to a new net
DisconnectWire(s, wire, otherWire) ==
    LET s1 == WireDisconnect(s, otherWire, wire)
        net == s1.wires[wire].net
        oldWires == WiresConnectedTo(s1, otherWire)
    IN  IF Len(s1.netw[net]) # Len(oldWires)
        THEN LET newNet == NewNetId(s1)
             IN  SplitLoop(AddWireNet(s1, newNet), net, newNet, oldWires, s1.netw[net])
        ELSE s1

(* ----------------------------- connectors ---------------------------- *)
\* Connector::scenePos: the node position plus the connector's local position
LocalPos == <<0, 0>>
ScenePos(s, n) == PAdd(s.nodes[n].pos, LocalPos)
Unbound == [wire |-> NoWire, idx |-> -1]

\* Connector::attachWire: the guard reads the index the connector holds
AttachWire(s, c, n, w, index) ==
    IF w = NoWire THEN c
    ELSE IF c.idx < -1 \/ Count(s.wires[w]) < c.idx THEN c
    ELSE [wire |-> w, idx |-> index]

\* Connector::detachWire
DetachWire(c) == Unbound

\* Connector::moveWirePoint gets past both of its checks with an index that
\* is no index of the wire: wirePointsRelative().at() reads outside the list
ReadsOutside(s, n) ==
    LET c == s.conns[n]
    IN  /\ c.wire # NoWire
        /\ ~(c.idx < -1 \/ Count(s.wires[c.wire]) < c.idx)
        /\ (c.idx < 0 \/ c.idx >= Count(s.wires[c.wire]))

\* the ways Connector::moveWirePoint can end: a read outside the list ends
\* the process or yields some value
MoveWirePointOutcomes(s, n) ==
    IF ReadsOutside(s, n) THEN {"crashed", "returned"} ELSE {"returned"}

\* Connector::moveWirePoint: the bound wire point follows the connector;
\* after a read outside the list movePointBy gets an index the wire refuses
MoveWirePoint(s, n) ==
    LET c == s.conns[n]
    IN  IF c.wire = NoWire THEN s
        ELSE IF c.idx < -1 \/ Count(s.wires[c.wire]) < c.idx THEN s
        ELSE IF ReadsOutside(s, n) THEN s
        ELSE LET w == s.wires[c.wire]
                 oldPos == w.pts[c.idx + 1].p
                 moveBy == PSub(ScenePos(s, n), PAdd(w.pos, oldPos))
             IN  [s EXCEPT !.wires[c.wire] = MovePointBy(w, c.idx, moveBy)]

(* ------------------------ wirePointMovedByUser ------------------------ *)
\* first pass: connectors bound to (rawWire, index) that are no longer there
DetachFromConnectors(s, rw, index) ==
    [s EXCEPT !.conns = [n \in Nodes |->
        IF /\ s.nodes[n].in
           /\ s.conns[n].wire = rw
           /\ s.conns[n].idx = index
           /\ ScenePos(s, n) # AbsAt(s.wires[rw], index)
        THEN DetachWire(s.conns[n])
        ELSE s.conns[n]]]

\* second pass: every connector at the point is bound to the first index
\* holding the point's coordinates
AttachToConnectors(s, rw, point) ==
    [s EXCEPT !.conns = [n \in Nodes |->
        IF /\ s.nodes[n].in
           /\ ScenePos(s, n) = PAdd(s.wires[rw].pos, point.p)
        THEN AttachWire(s, s.conns[n], n, rw, IndexOfPoint(s.wires[rw].pts, point.p))
        ELSE s.conns[n]]]

\* "Keep the wires connected if there is another junction"
ShouldDisconnect(s, wire, rw, index) ==
    LET js == Junctions(s.wires[rw])
        abs == PointsAbsolute(s.wires[rw])
    IN  ~ \E k \in 1..Len(js) :
            /\ IndexOfPoint(abs, js[k].p) # index
            /\ PointIsOnWire(s.wires[wire], js[k].p)

\* third pass, one iteration of the loop over wires()
DetachStep(s, wire, rw, index) ==
    IF wire = rw THEN s
    ELSE IF rw \in s.wires[wire].conn
    THEN LET s1 == IF ShouldDisconnect(s, wire, rw, index)
                   THEN DisconnectWire(s, rw, wire)
                   ELSE s
         IN  [s1 EXCEPT !.wires[rw] = SetPointIsJunction(@, index, FALSE)]
    ELSE s

RECURSIVE DetachWires(_, _, _, _)
DetachWires(s, ws, rw, index) ==
    IF ws = <<>> THEN s
    ELSE DetachWires(DetachStep(s, Head(ws), rw, index), Tail(ws), rw, index)

\* fourth pass, one iteration of the loop over wires()
AttachStep(s, wire, rw, index) ==
    IF wire = rw THEN s
    ELSE IF /\ PointIsOnWire(s.wires[wire], AbsAt(s.wires[rw], index))
            /\ wire \notin s.wires[rw].conn
    THEN ConnectWire([s EXCEPT !.wires[rw] = SetPointIsJunction(@, index, TRUE)], wire, rw)
    ELSE s

RECURSIVE AttachWires(_, _, _, _)
AttachWires(s, ws, rw, index) ==
    IF ws = <<>> THEN s
    ELSE AttachWires(AttachStep(s, Head(ws), rw, index), Tail(ws), rw, index)

IsEndIndexAlways(w, index) == TRUE

IsEndIndex(w, index) == index = 0 \/ index = Count(w) - 1

\* Scene::wirePointMovedByUser(rawWire, index)
WirePointMovedByUser(s, rw, index) ==
    LET point == s.wires[rw].pts[index + 1]
        s1 == DetachFromConnectors(s, rw, index)
        s2 == AttachToConnectors(s1, rw, point)
        s3 == IF IsEndIndex(s2.wires[rw], index) /\ point.j
              THEN DetachWires(s2, SceneWires(s2), rw, index)
              ELSE s2
    IN  IF IsEndIndex(s3.wires[rw], index)
        THEN AttachWires(s3, SceneWires(s3), rw, index)
        ELSE s3

(* ------------------------- addWire / removeWire ----------------------- *)
\* Scene::addItem / Scene::removeItem on a wire: membership of _items
AddItemWire(s, w) == [s EXCEPT !.wires[w].st = "in"]
RemoveItemWire(s, w) == [s EXCEPT !.wires[w].st = "removed"]

\* Scene::addWire: a new net holding only the wire; no junction is looked for
AddWire(s, w) ==
    LET newNet == NewNetId(s)
    IN  AddItemWire(AddWireNet(NetAddWire(s, newNet, w), newNet), w)

\* Scene::removeWire, one iteration of the loop over wiresConnectedTo(wire)
RemoveStep(s, wire, otherWire) ==
    IF otherWire = wire THEN s
    ELSE IF wire \in s.wires[otherWire].conn THEN DisconnectWire(s, wire, otherWire)
    ELSE IF otherWire \in s.wires[wire].conn THEN DisconnectWire(s, otherWire, wire)
    ELSE s

RECURSIVE RemoveLoop(_, _, _)
RemoveLoop(s, wire, ows) ==
    IF ows = <<>> THEN s
    ELSE RemoveLoop(RemoveStep(s, wire, Head(ows)), wire, Tail(ows))

\* Scene::removeWire, the loop over _nets: the wire leaves its nets and the
\* nets left empty are collected, then deleted
RECURSIVE DropFromNets(_, _, _)
DropFromNets(s, wire, ns) ==
    IF ns = <<>> THEN s
    ELSE DropFromNets(NetRemoveWire(s, Head(ns), wire), wire, Tail(ns))

NetsToDelete(s) == SelectSeq(s.nets, LAMBDA n : Len(s.netw[n]) < 1)

RECURSIVE DeleteNets(_, _)
DeleteNets(s, ns) ==
    IF ns = <<>> THEN s ELSE DeleteNets(RemoveWireNet(s, Head(ns)), Tail(ns))

RemoveWire(s, wire) ==
    LET s1 == RemoveItemWire(s, wire)
        s2 == RemoveLoop(s1, wire, WiresConnectedTo(s1, wire))
        s3 == DropFromNets(s2, wire, s2.nets)
    IN  DeleteNets(s3, NetsToDelete(s3))

(* --------------------------- from_container --------------------------- *)
\* a wire as constructed from its stored points: no junction flag, no
\* connection, in no net
NewWire(shape) ==
    [st |-> "fresh", pos |-> <<0, 0>>,
     pts |-> [k \in 1..Len(shape) |-> [p |-> shape[k], j |-> FALSE]],
     conn |-> {}, net |-> NoNet]

FreshWires(s) == {w \in Wires : s.wires[w].st = "fresh"}

\* "Nets": each stored net becomes a net of new wires, appended to _nets
RECURSIVE LoadNetWires(_, _, _)
LoadNetWires(s, net, shapes) ==
    IF shapes = <<>> THEN s
    ELSE LET w == Min(FreshWires(s))
             s1 == [s EXCEPT !.wires[w] = NewWire(Head(shapes))]
         IN  LoadNetWires(AddItemWire(NetAddWire(s1, net, w), w), net, Tail(shapes))

RECURSIVE LoadNets(_, _)
LoadNets(s, nts) ==
    IF nts = <<>> THEN s
    ELSE LET net == NewNetId(s)
         IN  LoadNets(AddWireNet(LoadNetWires(s, net, Head(nts)), net), Tail(nts))

\* "Nodes": each stored node is restored at its position and added
RECURSIVE LoadNodes(_, _)
LoadNodes(s, ps) ==
    IF ps = <<>> THEN s
    ELSE LET n == Min({m \in Nodes : ~s.nodes[m].in})
         IN  LoadNodes([s EXCEPT !.nodes[n] = [in |-> TRUE, pos |-> Head(ps)]], Tail(ps))

\* "Attach the wires to the nodes", for one wire and one connector: the first
\* point of the wire within less than 1 of the connector
LoadAttachOne(s, w, n) ==
    LET abs == PointsAbsolute(s.wires[w])
        hits == {k \in 1..Len(abs) : Dist2(ScenePos(s, n), abs[k].p) < 1}
    IN  IF s.nodes[n].in /\ hits # {}
        THEN [s EXCEPT !.conns[n] =
                 AttachWire(s, @, n, w, IndexOfPoint(abs, abs[Min(hits)].p))]
        ELSE s

RECURSIVE LoadAttachNodes(_, _, _)
LoadAttachNodes(s, w, n) ==
    IF n > NumNodes THEN s ELSE LoadAttachNodes(LoadAttachOne(s, w, n), w, n + 1)

RECURSIVE LoadAttach(_, _)
LoadAttach(s, ws) ==
    IF ws = <<>> THEN s ELSE LoadAttach(LoadAttachNodes(s, Head(ws), 1), Tail(ws))

\* "Find junctions", the body of the inner loop
JunctionStep(s, wire, otherWire) ==
    IF wire = otherWire THEN s
    ELSE LET s1 == IF PointIsOnWire(s.wires[wire], AbsAt(s.wires[otherWire], 0))
                   THEN LET c == ConnectWire(s, wire, otherWire)
                        IN  [c EXCEPT !.wires[otherWire] = SetPointIsJunction(@, 0, TRUE)]
                   ELSE s
             lastIdx == Count(s1.wires[otherWire]) - 1
         IN  IF PointIsOnWire(s1.wires[wire], AbsAt(s1.wires[otherWire], lastIdx))
             THEN LET c == ConnectWire(s1, wire, otherWire)
                  IN  [c EXCEPT !.wires[otherWire] = SetPointIsJunction(@, lastIdx, TRUE)]
             ELSE s1

RECURSIVE JunctionInner(_, _, _)
JunctionInner(s, wire, ows) ==
    IF ows = <<>> THEN s
    ELSE JunctionInner(JunctionStep(s, wire, Head(ows)), wire, Tail(ows))

RECURSIVE FindJunctions(_, _)
FindJunctions(s, ws) ==
    IF ws = <<>> THEN s
    ELSE FindJunctions(JunctionInner(s, Head(ws), SceneWires(s)), Tail(ws))

\* Scene::from_container
FromContainer(s, cont) ==
    LET s0 == LoadNodes(s, cont.nodes)
        s1 == LoadNets(s0, cont.nets)
        s2 == LoadAttach(s1, SceneWires(s1))
    IN  FindJunctions(s2, SceneWires(s2))

(* ---------------------------- to_container ---------------------------- *)
\* the scene a load starts from when the scene is empty
EmptyScene ==
    [wires |-> [w \in Wires |-> NewWire(<<>>)], nets |-> <<>>,
     netw |-> [n \in NetIds |-> <<>>],
     nodes |-> [n \in Nodes |-> [in |-> FALSE, pos |-> <<0, 0>>]],
     conns |-> [n \in Nodes |-> Unbound]]

\* "Nodes": the stored nodes, in the order of nodes()
RECURSIVE SaveNodes(_, _)
SaveNodes(s, n) ==
    IF n > NumNodes THEN <<>>
    ELSE (IF s.nodes[n].in THEN <<s.nodes[n].pos>> ELSE <<>>) \o SaveNodes(s, n + 1)

\* a stored wire: its points in scene coordinates
SaveWire(w) == [k \in 1..Count(w) |-> AbsAt(w, k - 1)]

\* Scene::to_container: the nodes, and the nets of nets() with their wires
ToContainer(s) ==
    [nodes |-> SaveNodes(s, 1),
     nets |-> [k \in 1..Len(s.nets) |->
                 [i \in 1..Len(s.netw[s.nets[k]]) |-> SaveWire(s.wires[s.netw[s.nets[k]][i]])]]]

(* ------------------------ highlight by net name ----------------------- *)
\* a WireNet as constructed: no name, not highlighted, signals not blocked
NewWireNet == [name |-> "", highlighted |-> FALSE, blocked |-> FALSE]

\* the names given to nets
NetNames == {"", "vcc", "VCC", "gnd"}

\* the case folding of QString::compare(..., Qt::CaseInsensitive)
ToLower(name) == IF name = "VCC" THEN "vcc" ELSE name

\* WireNet::setName
SetName(w, net, name) == [w EXCEPT ![net].name = name]

\* QObject::blockSignals
BlockSignals(h, net, b) == [h EXCEPT !.w[net].blocked = b]

NetsNamedExact(s, w, wireNet) ==
    SelectSeq(s.nets, LAMBDA net : w[net].name # "" /\ w[net].name = w[wireNet].name)

\* Scene::nets(wireNet): the nets of _nets with a non-empty name equal to the
\* name of wireNet, case ignored
NetsNamed(s, w, wireNet) ==
    SelectSeq(s.nets, LAMBDA net :
        w[net].name # "" /\ ToLower(w[net].name) = ToLower(w[wireNet].name))

\* h.w is the state of the nets, h.runs the number of times the handler of
\* highlightChanged was entered
RECURSIVE SetHighlighted(_, _, _, _)
RECURSIVE WireNetHighlightChanged(_, _, _, _)
RECURSIVE HighlightLoop(_, _, _, _, _)

\* WireNet::setHighlighted: stores the state and emits highlightChanged,
\* which is delivered unless the net's signals are blocked
SetHighlighted(s, h, net, b) ==
    LET h1 == [h EXCEPT !.w[net].highlighted = b]
    IN  IF h1.w[net].blocked THEN h1 ELSE WireNetHighlightChanged(s, h1, net, b)

HighlightOtherStaysBlocked(s, h, otherWireNet, b) ==
    SetHighlighted(s, BlockSignals(h, otherWireNet, TRUE), otherWireNet, b)

\* Scene::wireNetHighlightChanged, the body of the loop for one other net
HighlightOther(s, h, otherWireNet, b) ==
    BlockSignals(SetHighlighted(s, BlockSignals(h, otherWireNet, TRUE), otherWireNet, b),
                 otherWireNet, FALSE)

HighlightLoop(s, h, wireNet, others, b) ==
    IF others = <<>> THEN h
    ELSE IF Head(others) = wireNet THEN HighlightLoop(s, h, wireNet, Tail(others), b)
    ELSE HighlightLoop(s, HighlightOther(s, h, Head(others), b), wireNet, Tail(others), b)

\* Scene::wireNetHighlightChanged, sender() being the net
WireNetHighlightChanged(s, h, sender, b) ==
    LET h1 == [h EXCEPT !.runs = @ + 1]
    IN  IF ~InSeq(s.nets, sender) THEN h1
        ELSE HighlightLoop(s, h1, sender, NetsNamed(s, h1.w, sender), b)

(* --------------------------- drawing a wire --------------------------- *)
\* Wire::appendPoint: the point is given in scene coordinates; nothing
\* happens when it equals the current last point
AppendPoint(w, p) ==
    IF Count(w) > 0 /\ AbsAt(w, Count(w) - 1) = p THEN w
    ELSE [w EXCEPT !.pts = Append(@, [p |-> PSub(p, w.pos), j |-> FALSE])]

\* Wire::removeLastPoint: a wire never loses its only point
RemoveLastPoint(w) ==
    IF Count(w) <= 1 THEN w
    ELSE [w EXCEPT !.pts = SubSeq(@, 1, Len(@) - 1)]

\* Wire::simplify, first half: consecutive equal points become one point
RECURSIVE RemoveDuplicatePoints(_)
RemoveDuplicatePoints(pts) ==
    IF Len(pts) < 2 THEN pts
    ELSE IF pts[1].p = pts[2].p
    THEN RemoveDuplicatePoints(
             <<[p |-> pts[1].p, j |-> pts[1].j \/ pts[2].j]>> \o SubSeq(pts, 3, Len(pts)))
    ELSE <<pts[1]>> \o RemoveDuplicatePoints(Tail(pts))

\* Wire::simplify, second half: an interior point on the line through its
\* neighbours goes unless it is a junction
RECURSIVE RemoveObsoletePoints(_)
RemoveObsoletePoints(pts) ==
    LET obsolete == {k \in 2..(Len(pts) - 1) :
                        /\ ~pts[k].j
                        /\ Cross(PSub(pts[k].p, pts[k - 1].p), PSub(pts[k + 1].p, pts[k].p)) = 0}
    IN  IF obsolete = {} THEN pts
        ELSE LET k == Min(obsolete)
             IN  RemoveObsoletePoints(SubSeq(pts, 1, k - 1) \o SubSeq(pts, k + 1, Len(pts)))

Simplify(w) == [w EXCEPT !.pts = RemoveObsoletePoints(RemoveDuplicatePoints(@))]

\* CommandItemAdd pushed for a new wire: the wire is added by Scene::addWire
CommandItemAddWire(s, w) == AddWire([s EXCEPT !.wires[w] = NewWire(<<>>)], w)

\* mousePressEvent, wire mode: "Attach point to connector if needed"
PressAttachConnectors(s, w, p) ==
    [s EXCEPT !.conns = [n \in Nodes |->
        IF s.nodes[n].in /\ Dist2(ScenePos(s, n), p) < 1
        THEN AttachWire(s, s.conns[n], n, w, IndexOfPoint(PointsAbsolute(s.wires[w]), p))
        ELSE s.conns[n]]]

\* mousePressEvent, wire mode: "Attach point to wire if needed", the first
\* wire of wires() the first point lies on
PressAttachWire(s, w) ==
    LET ws == SceneWires(s)
        hits == {k \in 1..Len(ws) :
                    ws[k] # w /\ PointIsOnWire(s.wires[ws[k]], AbsAt(s.wires[w], 0))}
    IN  IF Count(s.wires[w]) = 1 /\ hits # {}
        THEN LET c == ConnectWire(s, ws[Min(hits)], w)
             IN  [c EXCEPT !.wires[w] = SetPointIsJunction(@, 0, TRUE)]
        ELSE s

\* Scene::mousePressEvent in wire mode, left button, at the snapped position p;
\* nw is _newWire. The result is the scene and the new _newWire.
MousePressWire(s, nw, p) ==
    LET w == IF nw = NoWire THEN Min(FreshWires(s)) ELSE nw
        s0 == IF nw = NoWire
              THEN [CommandItemAddWire(s, w) EXCEPT !.wires[w].pos = p]
              ELSE s
        s1 == [s0 EXCEPT !.wires[w] = AppendPoint(@, p)]
        s2 == PressAttachConnectors(s1, w, p)
    IN  [s |-> PressAttachWire(s2, w), nw |-> w]

\* _invertWirePosture as the constructor sets it
InvertWirePosture == TRUE

\* mouseMoveEvent, wire mode, straight angles, first move of a segment
MoveNewSegment(w, p) ==
    LET w1 == IF Count(w) > 1 THEN RemoveLastPoint(w) ELSE w
        prevNode == AbsAt(w1, Count(w1) - 1)
        corner == IF InvertWirePosture THEN <<p[1], prevNode[2]>> ELSE <<prevNode[1], p[2]>>
    IN  AppendPoint(AppendPoint(w1, corner), p)

\* mouseMoveEvent, wire mode, straight angles, later moves of a segment; with
\* fewer than three points the read of point count-3 is out of range and g
\* stands for the value it yields
MoveSameSegment(w, p, g) ==
    LET p1 == IF Count(w) >= 3 THEN AbsAt(w, Count(w) - 3) ELSE g
        p2 == IF InvertWirePosture THEN <<p[1], p1[2]>> ELSE <<p1[1], p[2]>>
    IN  MovePointTo(MovePointTo(w, Count(w) - 2, p2), Count(w) - 1, p)

\* Scene::mouseMoveEvent in wire mode with a wire being drawn; straight is
\* the routeStraightAngles setting, seg is _newWireSegment
MouseMoveWire(s, nw, seg, straight, p, g) ==
    LET w == s.wires[nw]
    IN  IF straight
        THEN IF seg
             THEN [s |-> [s EXCEPT !.wires[nw] = MoveNewSegment(w, p)], seg |-> FALSE]
             ELSE [s |-> [s EXCEPT !.wires[nw] = MoveSameSegment(w, p, g)], seg |-> seg]
        ELSE IF Count(w) > 1
             THEN [s |-> [s EXCEPT !.wires[nw] = MovePointTo(w, Count(w) - 1, p)], seg |-> seg]
             ELSE [s |-> [s EXCEPT !.wires[nw] = AppendPoint(w, p)], seg |-> seg]

\* Scene::connectionPoints: the connector positions of the nodes of the scene
ConnectionPoints(s) == {ScenePos(s, n) : n \in {m \in Nodes : s.nodes[m].in}}

\* mouseDoubleClickEvent: "Attach point to wire if needed", every wire of
\* wires() the last point lies on
RECURSIVE FinishAttachWires(_, _, _)
FinishAttachWires(s, nw, ws) ==
    IF ws = <<>> THEN s
    ELSE LET wire == Head(ws)
             lastIdx == Count(s.wires[nw]) - 1
         IN  IF wire # nw /\ PointIsOnWire(s.wires[wire], AbsAt(s.wires[nw], lastIdx))
             THEN LET c == ConnectWire(s, wire, nw)
                  IN  FinishAttachWires(
                          [c EXCEPT !.wires[nw] = SetPointIsJunction(@, lastIdx, TRUE)],
                          nw, Tail(ws))
             ELSE FinishAttachWires(s, nw, Tail(ws))

\* wireIsFloating when the message box is reached
WireIsFloating(s, nw) ==
    LET lastPoint == AbsAt(s.wires[nw], Count(s.wires[nw]) - 1)
    IN  /\ lastPoint \notin ConnectionPoints(s)
        /\ \A wire \in Wires :
              InSeq(SceneWires(s), wire) /\ wire # nw
                  => ~PointIsOnWire(s.wires[wire], lastPoint)

MouseDoubleClickNoAttach(s, nw) ==
    IF nw = NoWire \/ Count(s.wires[nw]) <= 1 THEN [s |-> s, nw |-> nw]
    ELSE LET s1 == [s EXCEPT !.wires[nw] = RemoveLastPoint(@)]
         IN  IF WireIsFloating(s1, nw)
             THEN [s |-> [s1 EXCEPT !.wires[nw] = RemoveLastPoint(@)], nw |-> nw]
             ELSE [s |-> [s1 EXCEPT !.wires[nw] = Simplify(@)], nw |-> NoWire]

\* Scene::mouseDoubleClickEvent in wire mode; the result is the scene and the
\* new _newWire
MouseDoubleClickWire(s, nw) ==
    IF nw = NoWire \/ Count(s.wires[nw]) <= 1 THEN [s |-> s, nw |-> nw]
    ELSE LET s1 == [s EXCEPT !.wires[nw] = RemoveLastPoint(@)]
             s2 == FinishAttachWires(s1, nw, SceneWires(s1))
         IN  IF WireIsFloating(s1, nw)
             THEN [s |-> [s2 EXCEPT !.wires[nw] = RemoveLastPoint(@)], nw |-> nw]
             ELSE [s |-> [s2 EXCEPT !.wires[nw] = Simplify(@)], nw |-> NoWire]

SetModeAlways(s, md, nw, newMode) ==
    IF md = "wire"
    THEN [s |-> IF nw # NoWire THEN [s EXCEPT !.wires[nw] = Simplify(@)] ELSE s,
          mode |-> newMode, nw |-> NoWire, emitted |-> TRUE]
    ELSE [s |-> s, mode |-> newMode, nw |-> nw, emitted |-> TRUE]

\* Scene::setMode; the result is the scene, the mode, the new _newWire and
\* whether modeChanged was emitted
SetMode(s, md, nw, newMode) ==
    IF newMode = md THEN [s |-> s, mode |-> md, nw |-> nw, emitted |-> FALSE]
    ELSE IF md = "wire"
    THEN [s |-> IF nw # NoWire THEN [s EXCEPT !.wires[nw] = Simplify(@)] ELSE s,
          mode |-> newMode, nw |-> NoWire, emitted |-> TRUE]
    ELSE [s |-> s, mode |-> newMode, nw |-> nw, emitted |-> TRUE]

(* ------------------------------- inputs ------------------------------- *)
\* the point lists a wire is created with
Shapes ==
    { <<<<0, 0>>, <<2, 0>>>>, <<<<0, 1>>, <<2, 1>>>>, <<<<1, 0>>, <<1, 1>>>>,
      <<<<1, 0>>, <<2, 0>>>>, <<<<1, 0>>, <<GridX, 0>>>> }
\* the positions a node is created at
NodeSpots == {<<0, 0>>, <<1, 0>>}
\* stored scenes with up to two nodes and up to one wire of two or four points
LongShapes ==
    { <<<<0, 0>>, <<2, 0>>>>, <<<<1, 0>>, <<1, 1>>>>,
      <<<<0, 0>>, <<1, 0>>, <<1, 1>>, <<2, 1>>>> }
ConnectorContainers ==
    {[nodes |-> nd, nets |-> nt] :
        nd \in {<<>>} \cup {<<p>> : p \in NodeSpots} \cup {<<p, q>> : p, q \in NodeSpots},
        nt \in {<<>>} \cup {<< <<sh>> >> : sh \in LongShapes}}
\* the indices attachWire is called with
AttachIndices == (-2)..MaxIndex
\* the positions of the pointer while a wire is drawn
DrawSpots == {<<0, 0>>, <<1, 0>>, <<2, 0>>, <<1, 1>>}
\* the stored scenes that are loaded: no net, or one net of one wire
WireContainers ==
    {[nodes |-> <<>>, nets |-> nt] : nt \in {<<>>} \cup {<< <<sh>> >> : sh \in Shapes}}
\* stored scenes with up to two nodes and up to one wire
NodeContainers ==
    {[nodes |-> nd, nets |-> nt] :
        nd \in {<<>>} \cup {<<p>> : p \in NodeSpots} \cup {<<p, q>> : p, q \in NodeSpots},
        nt \in {<<>>} \cup {<< <<sh>> >> : sh \in Shapes}}
FreeNodes(s) == {n \in Nodes : ~s.nodes[n].in}

(* ---------------------------- drag and undo --------------------------- *)
\* items are nodes and wires
NodeItem(n) == <<"node", n>>
WireItem(w) == <<"wire", w>>
IsNode(item) == item[1] = "node"
Items == {NodeItem(n) : n \in Nodes} \cup {WireItem(w) : w \in Wires}

\* no drag yet: sel is the selection, moving is _movingNodes, init is
\* _initialItemPositions, cursor is _initialCursorPosition, pressed tells
\* that the left button is down, point is the wire a point of which is being
\* moved
NoDrag ==
    [sel |-> {}, moving |-> FALSE, init |-> <<>>, cursor |-> <<0, 0>>,
     pressed |-> FALSE, point |-> NoWire]

\* the positions of the pointer during a drag
DragSpots == {<<0, 0>>, <<1, 0>>}
\* what the cursor can be over at a press: nothing, a label, a node, a wire
\* or a point of a wire
ItemsUnder(s) ==
    {<<"none", 0>>, <<"label", 0>>, <<"node", 0>>, <<"wire", 0>>}
        \cup {<<"wirePoint", w>> : w \in {x \in Wires : s.wires[x].st = "in"}}
\* the stored scenes that are dragged in
DragContainers ==
    { [nodes |-> <<<<0, 0>>, <<1, 0>>>>, nets |-> << << <<<<0, 0>>, <<2, 0>>>> >> >>],
      [nodes |-> <<<<0, 0>>>>, nets |-> << << <<<<1, 0>>, <<GridX, 0>>>> >> >>],
      [nodes |-> <<<<1, 0>>, <<1, 0>>>>, nets |-> << << <<<<1, 0>>, <<1, 1>>>> >> >>],
      [nodes |-> <<<<2, 0>>>>, nets |-> << << <<<<0, 0>>, <<GridX, 0>>>> >>,
                                           << <<<<0, 0>>, <<0, 1>>>> >> >>] }
\* the items that can be selected
Selectable(s) ==
    {NodeItem(n) : n \in {m \in Nodes : s.nodes[m].in}}
        \cup {WireItem(w) : w \in {x \in Wires : s.wires[x].st = "in"}}

ItemPos(s, item) == IF IsNode(item) THEN s.nodes[item[2]].pos ELSE s.wires[item[2]].pos

\* QGraphicsItem::setPos: a node tells its connector, which moves the bound
\* wire point; a wire is translated as a whole
SetItemPos(s, item, p) ==
    IF IsNode(item) THEN MoveWirePoint([s EXCEPT !.nodes[item[2]].pos = p], item[2])
    ELSE [s EXCEPT !.wires[item[2]].pos = p]

RECURSIVE SortedSeq(_)
SortedSeq(S) == IF S = {} THEN <<>> ELSE <<Min(S)>> \o SortedSeq(S \ {Min(S)})

\* itemsToMove: the selected items, the wires first
ItemsToMove(sel) ==
    LET ws == SortedSeq({w \in Wires : WireItem(w) \in sel})
        ns == SortedSeq({n \in Nodes : NodeItem(n) \in sel})
    IN  [k \in 1..Len(ws) |-> WireItem(ws[k])] \o [k \in 1..Len(ns) |-> NodeItem(ns[k])]

\* QMap::value: the stored position, or the default point
InitialPos(d, item) == IF item \in DOMAIN d.init THEN d.init[item] ELSE <<0, 0>>

\* Scene::mousePressEvent in normal mode: sel is the selection the base
\* class leaves, under the item at the cursor
MousePressNormal(s, sel, under, pos) ==
    [sel |-> sel,
     moving |-> CASE under[1] = "node" -> TRUE
                  [] under[1] = "wire" -> TRUE
                  [] under[1] = "label" -> sel # {}
                  [] OTHER -> FALSE,
     init |-> [item \in sel |-> ItemPos(s, item)],
     cursor |-> pos,
     pressed |-> TRUE,
     point |-> IF under[1] = "wirePoint" THEN under[2] ELSE NoWire]

\* Scene::itemsMoveSnap
ItemsMoveSnap(item, moveBy) == moveBy

\* Scene::mouseMoveEvent in normal mode, left button down, _movingNodes set
RECURSIVE MoveItems(_, _, _, _)
MoveItems(s, d, items, pos) ==
    IF items = <<>> THEN s
    ELSE LET item == Head(items)
             moveBy == PSub(PSub(PAdd(InitialPos(d, item), pos), d.cursor), ItemPos(s, item))
             snapped == ItemsMoveSnap(item, moveBy)
         IN  MoveItems(SetItemPos(s, item, PAdd(ItemPos(s, item), snapped)), d, Tail(items), pos)

\* Scene::mouseMoveEvent in normal mode; without _movingNodes the event goes
\* to QGraphicsScene and the scene moves nothing itself
MouseMoveNormal(s, d, pos) ==
    IF d.pressed /\ d.moving THEN MoveItems(s, d, ItemsToMove(d.sel), pos) ELSE s

UpdateConnectionStepShared(s, n, wire) ==
    LET w == s.wires[wire]
        index == IF AbsAt(w, 0) = ScenePos(s, n) THEN 0
                 ELSE IF AbsAt(w, Count(w) - 1) = ScenePos(s, n) THEN Count(w) - 1
                 ELSE -1
    IN  IF index = -1 THEN s
        ELSE IF PointsAbsolute(w)[index + 1].j THEN s
        ELSE [s EXCEPT !.conns[n] = AttachWire(s, @, n, wire, index)]

\* Scene::updateNodeConnections, one wire of wires() for the connector of n
UpdateConnectionStep(s, n, wire) ==
    LET w == s.wires[wire]
        index == IF AbsAt(w, 0) = ScenePos(s, n) THEN 0
                 ELSE IF AbsAt(w, Count(w) - 1) = ScenePos(s, n) THEN Count(w) - 1
                 ELSE -1
    IN  IF index = -1 THEN s
        ELSE IF PointsAbsolute(w)[index + 1].j THEN s
        ELSE IF \E m \in Nodes : m # n /\ s.nodes[m].in /\ s.conns[m] = [wire |-> wire, idx |-> index]
        THEN s
        ELSE [s EXCEPT !.conns[n] = AttachWire(s, @, n, wire, index)]

RECURSIVE UpdateConnectionLoop(_, _, _)
UpdateConnectionLoop(s, n, ws) ==
    IF ws = <<>> THEN s
    ELSE UpdateConnectionLoop(UpdateConnectionStep(s, n, Head(ws)), n, Tail(ws))

\* Scene::updateNodeConnections(node)
UpdateNodeConnections(s, n) ==
    IF s.conns[n].wire # NoWire THEN s ELSE UpdateConnectionLoop(s, n, SceneWires(s))

\* mouseReleaseEvent: a selected wire that was moved as a whole has the
\* ends of its connected wires and each of its own points reconsidered
LastPointMovedByUser(s, o) == WirePointMovedByUser(s, o, Count(s.wires[o]) - 1)

RECURSIVE ReleaseConnected(_, _)
ReleaseConnected(s, others) ==
    IF others = <<>> THEN s
    ELSE ReleaseConnected(LastPointMovedByUser(WirePointMovedByUser(s, Head(others), 0),
                                               Head(others)),
                          Tail(others))

RECURSIVE ReleasePoints(_, _, _)
ReleasePoints(s, wire, i) ==
    IF i >= Count(s.wires[wire]) THEN s
    ELSE ReleasePoints(WirePointMovedByUser(s, wire, i), wire, i + 1)

RECURSIVE ReleaseWires(_, _, _)
ReleaseWires(s, d, items) ==
    IF items = <<>> THEN s
    ELSE LET item == Head(items)
             wire == item[2]
         IN  IF /\ ~IsNode(item)
                /\ d.point # wire
                /\ InitialPos(d, item) # s.wires[wire].pos
             THEN ReleaseWires(
                      ReleasePoints(ReleaseConnected(s, SortedSeq(s.wires[wire].conn)), wire, 0),
                      d, Tail(items))
             ELSE ReleaseWires(s, d, Tail(items))

\* mouseReleaseEvent: every item goes back to its initial position
RECURSIVE ResetItems(_, _, _)
ResetItems(s, d, items) ==
    IF items = <<>> THEN s
    ELSE ResetItems(SetItemPos(s, Head(items), InitialPos(d, Head(items))), d, Tail(items))

\* the moveBy of each item, taken just before the item is put back
RECURSIVE MoveByList(_, _, _)
MoveByList(s, d, items) ==
    IF items = <<>> THEN <<>>
    ELSE <<PSub(ItemPos(s, Head(items)), InitialPos(d, Head(items)))>>
         \o MoveByList(SetItemPos(s, Head(items), InitialPos(d, Head(items))), d, Tail(items))

\* CommandItemMove::redo and undo: each item is moved by its moveBy, or back
RECURSIVE CommandItemMove(_, _, _, _)
CommandItemMove(s, items, moveBys, sign) ==
    IF items = <<>> THEN s
    ELSE LET item == Head(items)
             p == PAdd(ItemPos(s, item), <<sign * Head(moveBys)[1], sign * Head(moveBys)[2]>>)
         IN  CommandItemMove(SetItemPos(s, item, p), Tail(items), Tail(moveBys), sign)

\* QUndoStack::push: the commands above the index are dropped, the command
\* is appended and redone
Push(u, cmd) == [cmds |-> Append(SubSeq(u.cmds, 1, u.index), cmd), index |-> u.index + 1]

NeedsToMoveAlways(moveBys) == TRUE

\* needsToMove: some moveBy is not null
NeedsToMove(moveBys) == \E k \in 1..Len(moveBys) : moveBys[k] # <<0, 0>>

RECURSIVE UpdateMovedNodes(_, _)
UpdateMovedNodes(s, items) ==
    IF items = <<>> THEN s
    ELSE UpdateMovedNodes(IF IsNode(Head(items)) THEN UpdateNodeConnections(s, Head(items)[2])
                          ELSE s, Tail(items))

\* Scene::mouseReleaseEvent in normal mode; the result is the scene, the
\* history, the number of commands pushed and, for the loop that calls
\* updateNodeConnections, the items it runs over and the scene it starts on
\* mouseReleaseEvent: updateNodeConnections for every node of itemsToMove
ReleaseUpdate(before, u, items, pushed) ==
    [s |-> UpdateMovedNodes(before, items), u |-> u, pushed |-> pushed,
     before |-> before, items |-> items]

\* mouseReleaseEvent: the items are back at their initial positions in s2;
\* the command is pushed if some item has to move, and the connections of
\* the nodes are reconsidered
ReleasePush(s2, u, items, moveBys) ==
    IF NeedsToMove(moveBys)
    THEN ReleaseUpdate(CommandItemMove(s2, items, moveBys, 1),
                       Push(u, [items |-> items, moveBys |-> moveBys]), items, 1)
    ELSE ReleaseUpdate(s2, u, items, 0)

\* mouseReleaseEvent after the wires were reconsidered: the part that runs
\* if _movingNodes is set
ReleaseMoving(s1, d, u, items) ==
    IF ~d.moving THEN [s |-> s1, u |-> u, pushed |-> 0, before |-> s1, items |-> <<>>]
    ELSE ReleasePush(ResetItems(s1, d, items), u, items, MoveByList(s1, d, items))

MouseReleaseNormal(s, d, u) ==
    ReleaseMoving(ReleaseWires(s, d, ItemsToMove(d.sel)), d, u,
                  ItemsToMove(d.sel \cap DOMAIN d.init))

UndoIndexOnly(s, u) ==
    IF u.index = 0 THEN [s |-> s, u |-> u] ELSE [s |-> s, u |-> [u EXCEPT !.index = @ - 1]]

\* Scene::undo: QUndoStack::undo undoes the command below the index
Undo(s, u) ==
    IF u.index = 0 THEN [s |-> s, u |-> u]
    ELSE [s |-> CommandItemMove(s, u.cmds[u.index].items, u.cmds[u.index].moveBys, -1),
          u |-> [u EXCEPT !.index = @ - 1]]

\* Scene::redo: QUndoStack::redo redoes the command above the index
Redo(s, u) ==
    IF u.index = Len(u.cmds) THEN [s |-> s, u |-> u]
    ELSE [s |-> CommandItemMove(s, u.cmds[u.index + 1].items, u.cmds[u.index + 1].moveBys, 1),
          u |-> [u EXCEPT !.index = @ + 1]]

(* -------------------------------- Init -------------------------------- *)
NoWireYet ==
    [st |-> "fresh", pos |-> <<0, 0>>, pts |-> <<>>, conn |-> {}, net |-> NoNet]

\* the empty scene; ops is the number of edits still to come
InitScene ==
    /\ wires = [w \in Wires |-> NoWireYet]
    /\ nets = <<>>
    /\ netw = [n \in NetIds |-> <<>>]
    /\ nodes = [n \in Nodes |-> [in |-> FALSE, pos |-> <<0, 0>>]]
    /\ conns = [n \in Nodes |-> Unbound]
    /\ last = [op |-> "init", a |-> 0, b |-> 0, from |-> <<0, 0>>, begun |-> 0,
               pre |-> [wires |-> wires, nets |-> nets, netw |-> netw,
                        nodes |-> nodes, conns |-> conns]]
    /\ mode = "normal"
    /\ newWire = NoWire
    /\ newSeg = FALSE
    /\ wnets = [n \in NetIds |-> NewWireNet]
    /\ drag = NoDrag
    /\ undoStack = [cmds |-> <<>>, index |-> 0]
    /\ itemList = <<>>
    /\ keepAlive = <<>>
    /\ timers = 0

Init == InitScene /\ ops = MaxOps
InitDraw == InitScene /\ ops = MaxDrawOps
InitHighlight == InitScene /\ ops = MaxHighlightOps
InitConnector == InitScene /\ ops = MaxConnectorOps
InitDrag == InitScene /\ ops = MaxDragOps
InitNodes == InitScene /\ ops = MaxNodeOps

\* last records the call that led to the state: its name, its arguments and
\* the scene at the moment the handler was entered
\* from is the position a moved point or node had before the move
\* begun is the number of nets at the press that began the wire being drawn
CommitLeft(s, op, a, b, from, pre, begun, left) ==
    /\ wires' = s.wires
    /\ nets' = s.nets
    /\ netw' = s.netw
    /\ nodes' = s.nodes
    /\ conns' = s.conns
    /\ last' = [op |-> op, a |-> a, b |-> b, from |-> from, pre |-> pre, begun |-> begun]
    /\ ops' = left

CommitBegun(s, op, a, b, from, pre, begun) ==
    CommitLeft(s, op, a, b, from, pre, begun, ops - 1)

\* a call that may not return: b is 2 when it ended the process, after which
\* nothing more happens, 1 when it read outside a list and returned, else 0
CommitOutcome(s, op, a, outside, outcome, from, pre) ==
    /\ CommitLeft(s, op, a,
                  IF outcome = "crashed" THEN 2 ELSE IF outside THEN 1 ELSE 0,
                  from, pre, last.begun,
                  IF outcome = "crashed" THEN 0 ELSE ops - 1)
    /\ UNCHANGED <<mode, newWire, newSeg, wnets, dragVars, itemVars>>

CommitScene(s, op, a, b, from, pre) ==
    /\ CommitBegun(s, op, a, b, from, pre, last.begun)
    /\ UNCHANGED <<wnets, dragVars, itemVars>>

\* an input event of the drawing path: r is the handler's result
CommitDraw(r, op, a, begun) ==
    /\ CommitBegun(r.s, op, a, 0, <<0, 0>>, Scene, begun)
    /\ mode' = r.mode
    /\ newWire' = r.nw
    /\ newSeg' = r.seg
    /\ UNCHANGED <<wnets, dragVars, itemVars>>

\* a call that leaves the mode and the wire being drawn alone
CommitFrom(s, op, a, b, from, pre) ==
    /\ CommitScene(s, op, a, b, from, pre)
    /\ UNCHANGED <<mode, newWire, newSeg>>

Commit(s, op, a, b, pre) == CommitFrom(s, op, a, b, <<0, 0>>, pre)

(* ------------------------------ actions ------------------------------- *)
\* Scene::addItem(node)
AddNodeAct ==
    \E p \in NodeSpots :
        /\ ops > 0
        /\ \E n \in Nodes : ~nodes[n].in
        /\ LET n == Min({m \in Nodes : ~nodes[m].in})
           IN  Commit([Scene EXCEPT !.nodes[n] = [in |-> TRUE, pos |-> p]], "addNode", n, 0, Scene)

\* Node::setPos: the moved signal reaches the connector's moveWirePoint
MoveNodeAct ==
    \E n \in Nodes, p \in Grid :
        /\ ops > 0
        /\ nodes[n].in
        /\ p # nodes[n].pos
        /\ LET s == [Scene EXCEPT !.nodes[n].pos = p]
           IN  \E outcome \in MoveWirePointOutcomes(s, n) :
                   CommitOutcome(MoveWirePoint(s, n), "moveNode", n, ReadsOutside(s, n),
                                 outcome, nodes[n].pos, Scene)

\* Scene::addWire on a newly constructed wire
AddWireAct ==
    \E sh \in Shapes :
        /\ ops > 0
        /\ FreshWires(Scene) # {}
        /\ LET w == Min(FreshWires(Scene))
               s == [Scene EXCEPT !.wires[w] = NewWire(sh)]
           IN  Commit(AddWire(s, w), "addWire", w, 0, s)

\* Scene::addWire on a wire that was removed (the wire object is kept as is)
ReAddWireAct ==
    \E w \in Wires :
        /\ ops > 0
        /\ wires[w].st = "removed"
        /\ Commit(AddWire(Scene, w), "addWire", w, 0, Scene)

\* Scene::removeWire
RemoveWireAct ==
    \E w \in Wires :
        /\ ops > 0
        /\ wires[w].st = "in"
        /\ Commit(RemoveWire(Scene, w), "removeWire", w, 0, Scene)

\* the user drags point i of wire w to p: Wire::movePointTo, then the
\* pointMovedByUser signal runs Scene::wirePointMovedByUser
UserMovedAct ==
    \E w \in Wires, p \in Grid :
        /\ ops > 0
        /\ wires[w].st = "in"
        /\ \E i \in 0..(Count(wires[w]) - 1) :
              LET s == [Scene EXCEPT !.wires[w] = MovePointTo(@, i, p)]
              IN  CommitFrom(WirePointMovedByUser(s, w, i), "userMoved", w, i,
                             AbsAt(wires[w], i), s)

\* Scene::from_container on the current scene
LoadAct ==
    \E cont \in WireContainers :
        /\ ops > 0
        /\ Len(cont.nets) <= Cardinality(FreshWires(Scene))
        /\ Commit(FromContainer(Scene, cont), "load", 0, 0, Scene)

\* Scene::from_container of a stored scene with nodes
LoadNodesAct ==
    \E cont \in NodeContainers :
        /\ ops > 0
        /\ Len(cont.nets) <= Cardinality(FreshWires(Scene))
        /\ Len(cont.nodes) <= Cardinality(FreeNodes(Scene))
        /\ Commit(FromContainer(Scene, cont), "load", 0, 0, Scene)

\* Scene::connectWire called directly on two installed wires
ConnectWireAct ==
    \E w, o \in Wires :
        /\ ops > 0
        /\ wires[w].st = "in" /\ wires[o].st = "in"
        /\ Commit(ConnectWire(Scene, w, o), "connectWire", w, o, Scene)

\* Scene::disconnectWire called directly on two installed wires
DisconnectWireAct ==
    \E w, o \in Wires :
        /\ ops > 0
        /\ wires[w].st = "in" /\ wires[o].st = "in"
        /\ Commit(DisconnectWire(Scene, w, o), "disconnectWire", w, o, Scene)

\* a call of setMode: a is the wire being drawn at the call, b holds the
\* mode at the call, the mode asked for and whether modeChanged was emitted
CommitSetMode(r, newMode) ==
    /\ CommitBegun(r.s, "setMode", newWire,
                   [old |-> mode, requested |-> newMode, emitted |-> r.emitted],
                   <<0, 0>>, Scene, last.begun)
    /\ mode' = r.mode
    /\ newWire' = r.nw
    /\ UNCHANGED <<newSeg, wnets, dragVars, itemVars>>

\* Scene::setMode
SetModeAct ==
    \E newMode \in {"normal", "wire"} :
        /\ ops > 0
        /\ CommitSetMode(SetMode(Scene, mode, newWire, newMode), newMode)

\* Scene::mousePressEvent, left button, in wire mode
PressWireAct ==
    \E p \in DrawSpots :
        /\ ops > 0
        /\ mode = "wire"
        /\ newWire # NoWire \/ FreshWires(Scene) # {}
        /\ LET r == MousePressWire(Scene, newWire, p)
           IN  CommitDraw([s |-> r.s, mode |-> mode, nw |-> r.nw, seg |-> TRUE],
                          "press", r.nw,
                          IF newWire = NoWire THEN Len(nets) ELSE last.begun)

\* Scene::mouseMoveEvent in wire mode while a wire is being drawn
MoveWireAct ==
    \E p \in DrawSpots, g \in DrawSpots, straight \in BOOLEAN :
        /\ ops > 0
        /\ mode = "wire"
        /\ newWire # NoWire
        /\ LET r == MouseMoveWire(Scene, newWire, newSeg, straight, p, g)
           IN  CommitDraw([s |-> r.s, mode |-> mode, nw |-> newWire, seg |-> r.seg],
                          "move", newWire, last.begun)

\* Scene::mouseDoubleClickEvent in wire mode
DoubleClickAct ==
    /\ ops > 0
    /\ mode = "wire"
    /\ LET r == MouseDoubleClickWire(Scene, newWire)
       IN  CommitDraw([s |-> r.s, mode |-> mode, nw |-> r.nw, seg |-> newSeg],
                      "doubleClick", newWire, last.begun)

\* a highlight call: pre also holds the state of the nets at the call and b
\* the number of runs of the handler
CommitHighlight(w, op, a, b) ==
    /\ wnets' = w
    /\ last' = [op |-> op, a |-> a, b |-> b, from |-> <<0, 0>>, begun |-> last.begun,
                pre |-> [wires |-> wires, nets |-> nets, netw |-> netw, nodes |-> nodes,
                         conns |-> conns, wnets |-> wnets]]
    /\ ops' = ops - 1
    /\ UNCHANGED <<wires, nets, netw, nodes, conns, mode, newWire, newSeg, dragVars, itemVars>>

\* WireNet::setName on a net of the scene
SetNameAct ==
    \E k \in 1..Len(nets), name \in NetNames :
        /\ ops > 0
        /\ CommitHighlight(SetName(wnets, nets[k], name), "setName", nets[k], 0)

\* WireNet::setHighlighted on a net of the scene
SetHighlightedAct ==
    \E k \in 1..Len(nets), b \in BOOLEAN :
        /\ ops > 0
        /\ LET h == SetHighlighted(Scene, [w |-> wnets, runs |-> 0], nets[k], b)
           IN  CommitHighlight(h.w, IF b THEN "highlight" ELSE "unhighlight", nets[k], h.runs)

\* Scene::addWire called with a null wire: the sanity check returns false
AddWireNullAct ==
    /\ ops > 0
    /\ Commit(Scene, "addWire", NoWire, 0, Scene)

\* the ways Scene::removeWire can end when called with a null wire:
\* removeItem returns false, then wiresConnectedTo reads wire->net() through
\* the null pointer, which ends the process or goes unnoticed
RemoveWireNullOutcomes == {"crashed", "returned"}

\* Scene::removeWire called with a null wire; b records a call that did not
\* return, after which nothing more happens
RemoveWireNullAct ==
    \E outcome \in RemoveWireNullOutcomes :
        /\ ops > 0
        /\ last' = [op |-> "removeWire", a |-> NoWire,
                    b |-> IF outcome = "crashed" THEN 1 ELSE 0,
                    from |-> <<0, 0>>, pre |-> Scene, begun |-> last.begun]
        /\ ops' = IF outcome = "crashed" THEN 0 ELSE ops - 1
        /\ UNCHANGED <<wires, nets, netw, nodes, conns, mode, newWire, newSeg, wnets,
                       dragVars, itemVars>>

\* Scene::from_container of a stored scene with nodes and longer wires
LoadLongAct ==
    \E cont \in ConnectorContainers :
        /\ ops > 0
        /\ Len(cont.nets) <= Cardinality(FreshWires(Scene))
        /\ Len(cont.nodes) <= Cardinality(FreeNodes(Scene))
        /\ Commit(FromContainer(Scene, cont), "load", 0, 0, Scene)

\* Connector::attachWire called on the connector of node n; from records
\* the wire and the index of the call
AttachWireAct ==
    \E n \in Nodes, w \in Wires \cup {NoWire}, index \in AttachIndices :
        /\ ops > 0
        /\ nodes[n].in
        /\ w # NoWire => wires[w].st = "in"
        /\ CommitFrom([Scene EXCEPT !.conns[n] = AttachWire(Scene, @, n, w, index)],
                      "attachWire", n, 0, <<w, index>>, Scene)

\* Connector::detachWire called on the connector of node n
DetachWireAct ==
    \E n \in Nodes :
        /\ ops > 0
        /\ nodes[n].in
        /\ Commit([Scene EXCEPT !.conns[n] = DetachWire(@)], "detachWire", n, 0, Scene)

\* the null pointer passed for an item
NoItem == 0
ItemIds == 1..NumItems

\* Scene::addItem: a null item is refused; any other item is appended to
\* _items and announced
AddItem(st, item) ==
    IF item = NoItem THEN [st |-> st, emitted |-> "", ret |-> FALSE]
    ELSE [st |-> [st EXCEPT !.items = Append(@, item)], emitted |-> "itemAdded", ret |-> TRUE]

RemoveItemAlwaysSchedules(st, item) ==
    IF item = NoItem THEN [st |-> st, emitted |-> "", ret |-> FALSE]
    ELSE [st |-> [items |-> RemoveAll(st.items, item),
                  keepAlive |-> Append(st.keepAlive, item),
                  timers |-> st.timers + 1],
          emitted |-> "itemRemoved", ret |-> TRUE]

\* Scene::removeItem: a null item is refused; any other item is taken out of
\* _items, announced and appended to the keep-alive list, and the deferred
\* clear is scheduled if that list was empty
RemoveItem(st, item) ==
    IF item = NoItem THEN [st |-> st, emitted |-> "", ret |-> FALSE]
    ELSE [st |-> [items |-> RemoveAll(st.items, item),
                  keepAlive |-> Append(st.keepAlive, item),
                  timers |-> IF st.keepAlive = <<>> THEN st.timers + 1 ELSE st.timers],
          emitted |-> "itemRemoved", ret |-> TRUE]

\* the deferred clear, run by the event loop at the next turn
ClearKeepAlive(st) == [st EXCEPT !.keepAlive = <<>>, !.timers = @ - 1]

\* the item list, the keep-alive list and the pending deferred clears
ItemState == [items |-> itemList, keepAlive |-> keepAlive, timers |-> timers]

\* a call on the item list: b holds the signal emitted and the value
\* returned, pre the item state at the call
CommitItems(r, op, item) ==
    /\ itemList' = r.st.items
    /\ keepAlive' = r.st.keepAlive
    /\ timers' = r.st.timers
    /\ last' = [op |-> op, a |-> item, b |-> [emitted |-> r.emitted, ret |-> r.ret],
                from |-> <<0, 0>>, begun |-> last.begun, pre |-> ItemState]
    /\ ops' = ops - 1
    /\ UNCHANGED <<wires, nets, netw, nodes, conns, mode, newWire, newSeg, wnets, dragVars>>

\* Scene::addItem(item), item null or not, in the scene already or not
AddItemAct ==
    \E item \in ItemIds \cup {NoItem} :
        /\ ops > 0
        /\ CommitItems(AddItem(ItemState, item), "addItem", item)

\* Scene::removeItem(item), item null or not, in the scene or not
RemoveItemAct ==
    \E item \in ItemIds \cup {NoItem} :
        /\ ops > 0
        /\ CommitItems(RemoveItem(ItemState, item), "removeItem", item)

\* the event loop runs a pending deferred clear
TimerAct ==
    /\ ops > 0
    /\ timers > 0
    /\ CommitItems([st |-> ClearKeepAlive(ItemState), emitted |-> "", ret |-> FALSE], "timer", NoItem)

InitItems == InitScene /\ ops = MaxItemOps
InitLong == InitScene /\ ops = MaxLongOps

\* an event of a drag or a call of the history: pre also holds the history
\* at the call
CommitDrag(s, op, b, d, u) ==
    /\ CommitLeft(s, op, 0, b, <<0, 0>>,
                  [wires |-> wires, nets |-> nets, netw |-> netw, nodes |-> nodes,
                   conns |-> conns, undoStack |-> undoStack],
                  last.begun, ops - 1)
    /\ drag' = d
    /\ undoStack' = u
    /\ newWire' = IF op = "press" THEN NoWire ELSE newWire
    /\ UNCHANGED <<mode, newSeg, wnets, itemVars>>

\* Scene::mousePressEvent in normal mode
PressNormalAct ==
    \E sel \in SUBSET Selectable(Scene), under \in ItemsUnder(Scene), pos \in DragSpots :
        /\ ops > 0
        /\ mode = "normal"
        /\ ~drag.pressed
        /\ CommitDrag(Scene, "press", 0, MousePressNormal(Scene, sel, under, pos), undoStack)

\* Scene::mouseMoveEvent in normal mode with the left button down; b tells
\* that only moves followed the press
DragMoveAct ==
    \E pos \in DragSpots :
        /\ ops > 0
        /\ mode = "normal"
        /\ drag.pressed
        /\ CommitDrag(MouseMoveNormal(Scene, drag, pos), "dragMove",
                      last.op = "press" \/ (last.op = "dragMove" /\ last.b),
                      drag, undoStack)

CommitRelease(r) ==
    CommitDrag(r.s, "release",
               [pushed |-> r.pushed, before |-> r.before, items |-> r.items,
                pure |-> last.op = "press" \/ (last.op = "dragMove" /\ last.b)],
               [drag EXCEPT !.pressed = FALSE], r.u)

\* Scene::mouseReleaseEvent in normal mode; b holds the number of commands
\* pushed and tells that only moves came between the press and the release
ReleaseAct ==
    /\ ops > 0
    /\ mode = "normal"
    /\ drag.pressed
    /\ CommitRelease(MouseReleaseNormal(Scene, drag, undoStack))

\* Scene::undo; b tells that the call comes right after the release of a
\* drag, and the number of commands that release pushed
UndoAct ==
    /\ ops > 0
    /\ LET r == Undo(Scene, undoStack)
       IN  CommitDrag(r.s, "undo",
                      IF last.op = "release" /\ last.b.pure
                      THEN [afterDrag |-> TRUE, pushed |-> last.b.pushed]
                      ELSE [afterDrag |-> FALSE, pushed |-> 0],
                      drag, r.u)

\* Scene::redo
RedoAct ==
    /\ ops > 0
    /\ LET r == Redo(Scene, undoStack)
       IN  CommitDrag(r.s, "redo", 0, drag, r.u)

\* Scene::from_container of a stored scene with nodes and a wire
LoadDragAct ==
    \E cont \in DragContainers :
        /\ ops > 0
        /\ Selectable(Scene) = {}
        /\ Commit(FromContainer(Scene, cont), "load", 0, 0, Scene)

\* the wire edits
Next ==
    \/ AddWireAct
    \/ ReAddWireAct
    \/ RemoveWireAct
    \/ UserMovedAct
    \/ LoadAct

Spec == Init /\ [][Next]_vars

\* the wire edits and the direct connect / disconnect calls
NextApi ==
    \/ AddWireAct
    \/ ReAddWireAct
    \/ RemoveWireAct
    \/ UserMovedAct
    \/ ConnectWireAct
    \/ DisconnectWireAct

SpecApi == Init /\ [][NextApi]_vars

\* nodes, connectors and wires
NextNodes ==
    \/ AddNodeAct
    \/ MoveNodeAct
    \/ UserMovedAct
    \/ LoadNodesAct

SpecNodes == InitNodes /\ [][NextNodes]_vars

\* nets built by addWire and load, then connected and disconnected directly
NextMerge ==
    \/ AddWireAct
    \/ LoadAct
    \/ ConnectWireAct
    \/ DisconnectWireAct

SpecMerge == Init /\ [][NextMerge]_vars

\* a wire drawn with the pointer in a scene that was loaded
NextDraw ==
    \/ LoadNodesAct
    \/ SetModeAct
    \/ PressWireAct
    \/ MoveWireAct
    \/ DoubleClickAct

SpecDraw == InitDraw /\ [][NextDraw]_vars

\* nets made by addWire, named and highlighted
NextHighlight ==
    \/ AddWireAct
    \/ SetNameAct
    \/ SetHighlightedAct

SpecHighlight == InitHighlight /\ [][NextHighlight]_vars

\* addWire and removeWire, called with wires and with null
NextNull ==
    \/ AddWireAct
    \/ LoadAct
    \/ RemoveWireAct
    \/ AddWireNullAct
    \/ RemoveWireNullAct

SpecNull == Init /\ [][NextNull]_vars

\* connectors attached, detached and moved directly, on a loaded scene
NextConnector ==
    \/ LoadLongAct
    \/ AttachWireAct
    \/ DetachWireAct
    \/ MoveNodeAct

SpecConnector == InitConnector /\ [][NextConnector]_vars

\* items of a loaded scene dragged with the pointer, undo and redo
NextDrag ==
    \/ LoadDragAct
    \/ PressNormalAct
    \/ DragMoveAct
    \/ ReleaseAct
    \/ UndoAct
    \/ RedoAct

SpecDrag == InitDrag /\ [][NextDrag]_vars

\* drawing wires and pressing in normal mode, with changes of mode between
NextModes ==
    \/ SetModeAct
    \/ PressWireAct
    \/ MoveWireAct
    \/ DoubleClickAct
    \/ PressNormalAct
    \/ ReleaseAct

SpecModes == InitDraw /\ [][NextModes]_vars

\* the edit calls on the nets: the wire edits, the load and the direct
\* connect / disconnect calls
NextEdit ==
    \/ AddWireAct
    \/ RemoveWireAct
    \/ UserMovedAct
    \/ LoadAct
    \/ ConnectWireAct
    \/ DisconnectWireAct

SpecEdit == Init /\ [][NextEdit]_vars

\* wires of two and four points next to nodes, their points moved by the
\* user
NextLong ==
    \/ LoadLongAct
    \/ UserMovedAct

SpecLong == InitLong /\ [][NextLong]_vars

\* the calls on the item list and the event loop
NextItems ==
    \/ AddItemAct
    \/ RemoveItemAct
    \/ TimerAct

SpecItems == InitItems /\ [][NextItems]_vars

(* ------------------------- claim vocabulary --------------------------- *)
Installed(s, w) == s.wires[w].st = "in"
InstalledWires(s) == {w \in Wires : Installed(s, w)}
\* the positions of _nets whose net lists the wire
NetsOf(s, w) == {k \in 1..Len(s.nets) : InSeq(s.netw[s.nets[k]], w)}
Occurrences(sq, e) == Cardinality({k \in 1..Len(sq) : sq[k] = e})
SameNet(s, a, b) == \E k \in NetsOf(s, a) : k \in NetsOf(s, b)
\* either wire has the other in its connected set
Linked(s, a, b) == a \in s.wires[b].conn \/ b \in s.wires[a].conn
\* p is within less than 1 of a segment of w and strictly between its ends
OnInterior(w, p) ==
    \E k \in 1..(Count(w) - 1) :
        /\ PointOnSegment(AbsAt(w, k - 1), AbsAt(w, k), p)
        /\ p # AbsAt(w, k - 1)
        /\ p # AbsAt(w, k)
\* p is within less than 1 of some point of the polyline of w
OnPolyline(w, p) ==
    \/ \E k \in 1..(Count(w) - 1) : PointOnSegment(AbsAt(w, k - 1), AbsAt(w, k), p)
    \/ \E k \in 0..(Count(w) - 1) : Dist2(AbsAt(w, k), p) < 1
EndIndices(w) == {i \in 0..(Count(w) - 1) : IsEndIndex(w, i)}
\* an endpoint of one wire lies on a point of the other
Touches(s, a, b) ==
    \/ \E i \in EndIndices(s.wires[a]) : OnPolyline(s.wires[b], AbsAt(s.wires[a], i))
    \/ \E i \in EndIndices(s.wires[b]) : OnPolyline(s.wires[a], AbsAt(s.wires[b], i))

\* the members of U reachable from S along the symmetric edges E
RECURSIVE Grow(_, _, _)
Grow(E, S, U) ==
    LET T == S \cup {b \in U : \E a \in S : <<a, b>> \in E \/ <<b, a>> \in E}
    IN  IF T = S THEN S ELSE Grow(E, T, U)
IsConnected(E, U) == U = {} \/ Grow(E, {Min(U)}, U) = U
SeqSet(sq) == {sq[k] : k \in 1..Len(sq)}
LinkEdges(s) == {e \in Wires \X Wires : e[1] # e[2] /\ e[2] \in s.wires[e[1]].conn}
TouchEdges(s) == {e \in Wires \X Wires : e[1] # e[2] /\ Touches(s, e[1], e[2])}

(* ------------------------------- claims ------------------------------- *)
\* C1: after any sequence of addWire, removeWire, connectWire, disconnectWire
\* and wirePointMovedByUser calls, every installed wire is a member of
\* exactly one net of the net list.
C1_ExactlyOneNet ==
    \A w \in InstalledWires(Scene) :
        /\ Cardinality(NetsOf(Scene, w)) = 1
        /\ \A k \in NetsOf(Scene, w) : Occurrences(netw[nets[k]], w) = 1

\* C1 witness: a disconnectWire call has split a net in two
C1_Witness ==
    /\ last.op = "disconnectWire"
    /\ Len(nets) = Len(last.pre.nets) + 1
    /\ \A k \in 1..Len(nets) : netw[nets[k]] # <<>>

\* C2 (as claimed): after an edit returns, the wires of each net form a single
\* connected component under "an endpoint of one lies on a point of the other".
C2_NetsTouchConnected ==
    \A k \in 1..Len(nets) : IsConnected(TouchEdges(Scene), SeqSet(netw[nets[k]]))

\* C3 (as claimed): after an edit returns, every point flagged is_junction lies
\* within less than 1 of the interior of a segment of another wire of its net.
C3_JunctionSound ==
    \A w \in InstalledWires(Scene) : \A i \in 0..(Count(wires[w]) - 1) :
        wires[w].pts[i + 1].j =>
            \E x \in InstalledWires(Scene) \ {w} :
                /\ SameNet(Scene, w, x)
                /\ OnInterior(wires[x], AbsAt(wires[w], i))

\* C4 (as claimed): after an edit returns, every bound connector is within
\* less than 1 of the wire point it is bound to.
C4_BindingConsistent ==
    \A n \in Nodes :
        (nodes[n].in /\ conns[n].wire # NoWire) =>
            /\ conns[n].idx >= 0
            /\ conns[n].idx < Count(wires[conns[n].wire])
            /\ Dist2(ScenePos(Scene, n), AbsAt(wires[conns[n].wire], conns[n].idx)) < 1

\* C5 (as claimed): after addWire(W) with an endpoint of W on the strict
\* interior of a segment of an installed wire X, W and X are in the same net,
\* the connection is recorded and that endpoint of W is a junction.
C5_AddWireJoins ==
    last.op = "addWire" =>
        \A x \in InstalledWires(last.pre) \ {last.a} :
            \A i \in EndIndices(wires[last.a]) :
                OnInterior(wires[x], AbsAt(wires[last.a], i)) =>
                    /\ SameNet(Scene, last.a, x)
                    /\ Linked(Scene, last.a, x)
                    /\ wires[last.a].pts[i + 1].j

\* C6 (as claimed): after removeWire(W) no remaining wire has W in its
\* connected set and the connected set of W holds no remaining wire.
C6_RemoveUnlinks ==
    last.op = "removeWire" =>
        \A x \in InstalledWires(Scene) :
            /\ last.a \notin wires[x].conn
            /\ x \notin wires[last.a].conn

\* C7 (as claimed): if the net of W is connected under the connected-set relation, then
\* after removeWire(W) W is in no net and the remaining wires of that net are
\* partitioned into nets that are exactly the connected components of the
\* connected-set graph restricted to them.
C7_RemoveSplits ==
    last.op = "removeWire" =>
        LET W == last.a
            pre == last.pre
            U == SeqSet(pre.netw[pre.wires[W].net])
            R == U \ {W}
        IN  IsConnected(LinkEdges(pre), U) =>
                /\ NetsOf(Scene, W) = {}
                /\ \A a \in R :
                      /\ Cardinality(NetsOf(Scene, a)) = 1
                      /\ \A k \in NetsOf(Scene, a) : SeqSet(netw[nets[k]]) \subseteq R
                /\ \A a, b \in R :
                      SameNet(Scene, a, b) <=> b \in Grow(LinkEdges(pre), {a}, R)

\* the case of C8 and C9: endpoint i of W, as moved, lies on wire X, and the
\* two wires are not connected in either direction when the handler is entered
NewlyOn(pre, W, i, X) ==
    /\ X # W
    /\ Installed(pre, X)
    /\ IsEndIndex(pre.wires[W], i)
    /\ PointIsOnWire(pre.wires[X], AbsAt(pre.wires[W], i))
    /\ ~Linked(pre, W, X)

\* C8 (as claimed): when wirePointMovedByUser(W, i) finds endpoint i on another
\* wire X not yet connected with W, then on return point i is a junction, W
\* and X are in the same net, and if they were in different nets the number
\* of nets has decreased by exactly one and the net that held W is gone.
C8_Original ==
    last.op = "userMoved" =>
        \A X \in Wires :
            NewlyOn(last.pre, last.a, last.b, X) =>
                /\ wires[last.a].pts[last.b + 1].j
                /\ SameNet(Scene, last.a, X)
                /\ ~SameNet(last.pre, last.a, X) =>
                      /\ Len(nets) = Len(last.pre.nets) - 1
                      /\ ~InSeq(nets, last.pre.wires[last.a].net)

\* the installed wires other than W that the moved endpoint lies on
HostsAt(pre, W, i) ==
    {Y \in InstalledWires(pre) \ {W} : PointIsOnWire(pre.wires[Y], AbsAt(pre.wires[W], i))}

\* C8 (amended): on return point i is a junction and W and X are in the same
\* net; if they were in different nets and point i carried no junction flag
\* when the handler was entered, the net that held W is no longer in the net
\* list and the number of nets has decreased, by exactly one when every wire
\* the new position lies on was in the net of X.
C8_MergesIntoHost ==
    last.op = "userMoved" =>
        \A X \in Wires :
            NewlyOn(last.pre, last.a, last.b, X) =>
                /\ wires[last.a].pts[last.b + 1].j
                /\ SameNet(Scene, last.a, X)
                /\ (/\ ~SameNet(last.pre, last.a, X)
                    /\ ~last.pre.wires[last.a].pts[last.b + 1].j) =>
                      /\ ~InSeq(nets, last.pre.wires[last.a].net)
                      /\ Len(nets) < Len(last.pre.nets)
                      /\ (\A Y \in HostsAt(last.pre, last.a, last.b) : SameNet(last.pre, X, Y)) =>
                            Len(nets) = Len(last.pre.nets) - 1

\* C8 witness: an unflagged endpoint was moved onto a wire of another net
C8_Witness ==
    /\ last.op = "userMoved"
    /\ \E X \in Wires :
          /\ NewlyOn(last.pre, last.a, last.b, X)
          /\ ~SameNet(last.pre, last.a, X)
          /\ ~last.pre.wires[last.a].pts[last.b + 1].j
          /\ Len(last.pre.nets) = NumWires
          /\ SameNet(Scene, last.a, X)
          /\ Len(nets) = NumWires - 1

OtherJunctionOn(pre, W, i, X) ==
    \E k \in 0..(Count(pre.wires[W]) - 1) :
        /\ k # i
        /\ pre.wires[W].pts[k + 1].j
        /\ PointIsOnWire(pre.wires[X], AbsAt(pre.wires[W], k))

\* C10 (as claimed): when wirePointMovedByUser(W, i) is called for an endpoint
\* that carried is_junction, the connection with every other connected wire X
\* is kept iff another junction of W still lies on X, and the flag at i is
\* cleared by the stale-junction pass, so it is false on return whenever the
\* new position lies on no other wire.
C10_Original ==
    (/\ last.op = "userMoved"
     /\ IsEndIndex(last.pre.wires[last.a], last.b)
     /\ last.pre.wires[last.a].pts[last.b + 1].j) =>
        /\ \A X \in InstalledWires(last.pre) \ {last.a} :
              (/\ Linked(last.pre, last.a, X)
               /\ ~PointIsOnWire(last.pre.wires[X], AbsAt(last.pre.wires[last.a], last.b))) =>
                  (Linked(Scene, last.a, X) <=> OtherJunctionOn(last.pre, last.a, last.b, X))
        /\ (\A X \in InstalledWires(last.pre) \ {last.a} :
               ~PointIsOnWire(last.pre.wires[X], AbsAt(last.pre.wires[last.a], last.b))) =>
              ~wires[last.a].pts[last.b + 1].j

\* the case of C11: endpoint i of W carried the only junction flag of W, sat
\* on the host X (which has W in its connected set), and was moved to a
\* position that lies on no other wire
OnlyJunctionLeft(pre, W, i, from, X) ==
    /\ X # W
    /\ Installed(pre, X)
    /\ IsEndIndex(pre.wires[W], i)
    /\ \A k \in 0..(Count(pre.wires[W]) - 1) : pre.wires[W].pts[k + 1].j <=> k = i
    /\ PointIsOnWire(pre.wires[X], from)
    /\ W \in pre.wires[X].conn
    /\ \A Y \in InstalledWires(pre) \ {W} :
          ~PointIsOnWire(pre.wires[Y], AbsAt(pre.wires[W], i))

MovedAlongHost(pre, W, i, from, X) ==
    /\ X # W
    /\ Installed(pre, X)
    /\ IsEndIndex(pre.wires[W], i)
    /\ pre.wires[W].pts[i + 1].j
    /\ W \in pre.wires[X].conn
    /\ PointIsOnWire(pre.wires[X], from)
    /\ from # AbsAt(pre.wires[W], i)
    /\ PointIsOnWire(pre.wires[X], AbsAt(pre.wires[W], i))

\* C12 (as claimed): when junction endpoint i of W is moved to another
\* position on the interior of the same host X, then on return W and X are in
\* the same net, point i is a junction, the number of nets is the number
\* before the call and X is in the net it was in before.
C12_Original ==
    last.op = "userMoved" =>
        \A X \in Wires :
            MovedAlongHost(last.pre, last.a, last.b, last.from, X) =>
                /\ SameNet(Scene, last.a, X)
                /\ wires[last.a].pts[last.b + 1].j
                /\ Len(nets) = Len(last.pre.nets)
                /\ wires[X].net = last.pre.wires[X].net
                /\ NetFromWire(Scene, X) = NetFromWire(last.pre, X)

\* C13 (as claimed): wirePointMovedByUser(W, i) leaves alone every connector
\* that is bound to another wire or to another point index, also when the
\* connector is at the new location of point i.
C13_Original ==
    last.op = "userMoved" =>
        \A n \in Nodes :
            (/\ last.pre.nodes[n].in
             /\ last.pre.conns[n].wire # NoWire
             /\ \/ last.pre.conns[n].wire # last.a
                \/ last.pre.conns[n].idx # last.b) =>
                conns[n] = last.pre.conns[n]

\* the partition of the wires into nets
Partition(s) == {SeqSet(s.netw[s.nets[k]]) : k \in 1..Len(s.nets)}

\* the case of C14: the node move carried endpoint i of W, bound to the
\* connector of node n, onto a wire W is not connected with, or carried a
\* junction endpoint off a wire that has W in its connected set
CarriedCase(s, n) ==
    LET W == s.conns[n].wire
        i == s.conns[n].idx
    IN  /\ W # NoWire
        /\ i >= 0 /\ i < Count(s.wires[W])
        /\ IsEndIndex(s.wires[W], i)
        /\ AbsAt(s.wires[W], i) = ScenePos(s, n)
        /\ \/ \E X \in Wires : NewlyOn(s, W, i, X)
           \/ /\ s.wires[W].pts[i + 1].j
              /\ \E X \in InstalledWires(s) \ {W} :
                    /\ W \in s.wires[X].conn
                    /\ ~PointIsOnWire(s.wires[X], AbsAt(s.wires[W], i))

\* C14 (as claimed): after such a node move the junction flags, the connected
\* sets and the net membership are what wirePointMovedByUser(W, i) makes them.
C14_Original ==
    (last.op = "moveNode" /\ CarriedCase(Scene, last.a)) =>
        LET W == conns[last.a].wire
            exp == WirePointMovedByUser(Scene, W, conns[last.a].idx)
        IN  /\ \A w \in Wires :
                  /\ wires[w].conn = exp.wires[w].conn
                  /\ wires[w].pts = exp.wires[w].pts
            /\ Partition(Scene) = Partition(exp)

\* C15 (as claimed): when the node of a connector bound to (W, i) is
\* translated by D, point i of W ends at the connector's new scene position,
\* which is its old position plus D; every other point of W, every other wire
\* and the partition of the wires into nets are unchanged; an unbound
\* connector moves no wire point.
C15_Original ==
    last.op = "moveNode" =>
        LET n == last.a
            pre == last.pre
            W == pre.conns[n].wire
            i == pre.conns[n].idx
            D == PSub(nodes[n].pos, last.from)
        IN  /\ Partition(Scene) = Partition(pre)
            /\ conns = pre.conns
            /\ W = NoWire => wires = pre.wires
            /\ W # NoWire =>
                  /\ AbsAt(wires[W], i) = ScenePos(Scene, n)
                  /\ AbsAt(wires[W], i) = PAdd(AbsAt(pre.wires[W], i), D)
                  /\ \A k \in 0..(Count(wires[W]) - 1) :
                        k # i => wires[W].pts[k + 1] = pre.wires[W].pts[k + 1]
                  /\ wires[W].pts[i + 1].j = pre.wires[W].pts[i + 1].j
                  /\ \A w \in Wires \ {W} : wires[w] = pre.wires[w]

\* C16: a connect whose two wires are in the same net changes no net; merging
\* otherwise returns true, appends the wires of B to A, leaves every wire of B
\* in A and in no other net, and B is not in the net list when connectWire
\* returns. mergeNets returns false exactly when the two nets are the same.
C16_MergeNets ==
    last.op = "connectWire" =>
        LET pre == last.pre
            A == NetFromWire(pre, last.a)
            B == NetFromWire(pre, last.b)
            m == MergeNets(pre, A, B)
        IN  /\ m.merged <=> A # B
            /\ A = B =>
                  /\ m.s = pre
                  /\ nets = pre.nets
                  /\ netw = pre.netw
            /\ A # B =>
                  /\ netw[A] = pre.netw[A] \o pre.netw[B]
                  /\ \A w \in SeqSet(pre.netw[B]) :
                        /\ wires[w].net = A
                        /\ \A k \in NetsOf(Scene, w) : nets[k] = A
                  /\ ~InSeq(nets, B)
                  /\ InSeq(nets, A)
                  /\ Len(nets) = Len(pre.nets) - 1
                  /\ \A n \in NetIds \ {A, B} : netw[n] = pre.netw[n]

\* C16 witness: a connect has merged a net of two wires into another net
C16_Witness ==
    /\ last.op = "connectWire"
    /\ NetFromWire(last.pre, last.a) # NetFromWire(last.pre, last.b)
    /\ Len(last.pre.netw[NetFromWire(last.pre, last.b)]) = 2
    /\ Len(netw[NetFromWire(Scene, last.a)]) = NumWires
    /\ Len(nets) = 1


\* the wire being drawn has at least two points and, once its last point is
\* dropped, its last point is on no connector and on no other wire
FloatingCase(s, W) ==
    /\ W # NoWire
    /\ Count(s.wires[W]) > 1
    /\ LET q == AbsAt(s.wires[W], Count(s.wires[W]) - 2)
       IN  /\ \A n \in Nodes : s.nodes[n].in => Dist2(ScenePos(s, n), q) >= 1
           /\ \A X \in InstalledWires(s) \ {W} : ~OnPolyline(s.wires[X], q)

\* C17: when a double-click in wire mode finalizes a wire whose last point,
\* after the provisional point is dropped, lies on no connector and on no
\* other wire, nothing changes: the wire is not installed, it is in no net,
\* there are as many nets as before the wire was begun, and the wire keeps
\* every point but the dropped one
C17_Original ==
    last.op = "doubleClick" /\ FloatingCase(last.pre, last.a) =>
        LET W == last.a
            before == last.pre.wires[W]
        IN  /\ ~Installed(Scene, W)
            /\ NetsOf(Scene, W) = {}
            /\ Len(nets) = last.begun
            /\ wires[W].pos = before.pos
            /\ wires[W].pts = SubSeq(before.pts, 1, Len(before.pts) - 1)


HighlightOps == {"highlight", "unhighlight"}
\* the highlight state changed to h on net N of the net list
HighlightChanged(N, h) ==
    /\ last.op \in HighlightOps
    /\ last.a = N
    /\ h = (last.op = "highlight")
    /\ InSeq(last.pre.nets, N)
    /\ last.pre.wnets[N].highlighted # h
\* both names are the same once upper and lower case are identified
SameNameIgnoringCase(a, b) ==
    \/ a = b
    \/ {a, b} = {"vcc", "VCC"}
OtherNets(N) == {nets[k] : k \in 1..Len(nets)} \ {N}

\* C18: when a net N of the net list changes its highlight state to h, every
\* other net of the list with a non-empty name equal to N's name, case
\* ignored, has highlight state h on return; every other net keeps its
\* highlight state, so nothing else changes when N has no name
C18_HighlightByName ==
    \A N \in NetIds, h \in BOOLEAN :
        HighlightChanged(N, h) =>
            \A o \in OtherNets(N) :
                IF wnets[o].name # "" /\ SameNameIgnoringCase(wnets[o].name, wnets[N].name)
                THEN wnets[o].highlighted = h
                ELSE wnets[o].highlighted = last.pre.wnets[o].highlighted

\* a net named vcc was highlighted and two other nets, one named VCC, that
\* were not highlighted before are highlighted now
C18_Witness ==
    /\ last.op = "highlight"
    /\ HighlightChanged(last.a, TRUE)
    /\ wnets[last.a].name = "vcc"
    /\ \E o1, o2 \in OtherNets(last.a) :
          /\ o1 # o2
          /\ wnets[o1].name = "VCC"
          /\ wnets[o2].name \in {"vcc", "VCC"}
          /\ ~last.pre.wnets[o1].highlighted /\ ~last.pre.wnets[o2].highlighted
          /\ wnets[o1].highlighted /\ wnets[o2].highlighted

\* C19: one highlight change on a net runs the propagation handler exactly
\* once, whatever the number of nets sharing its name, and leaves no net with
\* its signals blocked
C19_NoLoop ==
    \A N \in NetIds, h \in BOOLEAN :
        HighlightChanged(N, h) =>
            /\ last.b = 1
            /\ \A n \in NetIds : ~wnets[n].blocked

\* a net sharing its name with two other nets changed its highlight state
C19_Witness ==
    /\ last.op \in HighlightOps
    /\ HighlightChanged(last.a, last.op = "highlight")
    /\ last.b = 1
    /\ wnets[last.a].name # ""
    /\ Cardinality({o \in OtherNets(last.a) :
                       SameNameIgnoringCase(wnets[o].name, wnets[last.a].name)}) = 2


\* C20: addWire and removeWire called with a null wire return normally and
\* change nothing: the items, the net list, every connected set and every
\* connector binding are as before the call
C20_Original ==
    last.op \in {"addWire", "removeWire"} /\ last.a = NoWire =>
        /\ last.b = 0
        /\ Scene = last.pre


\* i is an index of the point list of wire W in scene s
ValidIndex(s, W, i) == W # NoWire /\ i >= 0 /\ i < Count(s.wires[W])

\* C21: attachWire(wire, index) leaves the binding of the connector as it
\* was when wire is null or index is no index of the wire (index < 0 or
\* index >= its number of points), whatever the binding was
C21_Original ==
    last.op = "attachWire" /\ ~ValidIndex(last.pre, last.from[1], last.from[2]) =>
        conns[last.a] = last.pre.conns[last.a]

\* C22: after attachWire(W2, j) with W2 a wire and j an index of W2 the
\* connector is bound to exactly (W2, j), whatever it was bound to before;
\* after detachWire it is unbound
C22_Original ==
    /\ last.op = "attachWire" /\ ValidIndex(last.pre, last.from[1], last.from[2]) =>
           conns[last.a] = [wire |-> last.from[1], idx |-> last.from[2]]
    /\ last.op = "detachWire" => conns[last.a] = Unbound

\* C23: when the index a connector is bound with is no index of its wire
\* (index < 0 or index >= the number of points), the move handler of the
\* connector reads no point outside the list, returns, and moves no point
C23_Original ==
    LET c == last.pre.conns[last.a]
    IN  /\ last.op = "moveNode"
        /\ c.wire # NoWire
        /\ ~ValidIndex(last.pre, c.wire, c.idx)
        => last.b = 0 /\ wires = last.pre.wires

\* the wires a load added to the scene
LoadedWires == {W \in InstalledWires(Scene) : ~Installed(last.pre, W)}

\* C24: after a load every connector within less than 1 of an endpoint of a
\* loaded wire is bound to a wire point within less than 1 of it, and every
\* binding the load installed refers to the first or the last point of its
\* wire
C24_Original ==
    last.op = "load" =>
        \A n \in Nodes :
            nodes[n].in =>
                /\ (\E W \in LoadedWires : \E i \in EndIndices(wires[W]) :
                        Dist2(ScenePos(Scene, n), AbsAt(wires[W], i)) < 1)
                   => /\ ValidIndex(Scene, conns[n].wire, conns[n].idx)
                      /\ Dist2(ScenePos(Scene, n), AbsAt(wires[conns[n].wire], conns[n].idx)) < 1
                /\ conns[n] # last.pre.conns[n]
                   => /\ ValidIndex(Scene, conns[n].wire, conns[n].idx)
                      /\ conns[n].idx \in EndIndices(wires[conns[n].wire])


\* the scene obtained by saving s and loading the result into an empty scene
RoundTrip(s) == FromContainer(EmptyScene, ToContainer(s))
\* the positions of wire W in the list of wires()
PlacesOf(s, W) == {k \in 1..Len(SceneWires(s)) : SceneWires(s)[k] = W}
NodesIn(s) == {n \in Nodes : s.nodes[n].in}
\* the place among the nodes of the scene that node n has
NodeRank(s, n) == Cardinality({m \in NodesIn(s) : m <= n})
\* s and r are the same scene once the k-th wire of one is identified with
\* the k-th wire of the other, and likewise the nodes
SameScene(s, r) ==
    LET ws == SceneWires(s)
        wr == SceneWires(r)
    IN  /\ Len(ws) = Len(wr)
        /\ Cardinality(NodesIn(s)) = Cardinality(NodesIn(r))
        /\ \A k \in 1..Len(ws) :
              /\ PointsAbsolute(s.wires[ws[k]]) = PointsAbsolute(r.wires[wr[k]])
              /\ \A i \in 1..Len(ws) :
                    /\ SameNet(s, ws[k], ws[i]) <=> SameNet(r, wr[k], wr[i])
                    /\ ws[i] \in s.wires[ws[k]].conn <=> wr[i] \in r.wires[wr[k]].conn
        /\ \A n \in NodesIn(s) : \A m \in NodesIn(r) :
              NodeRank(s, n) = NodeRank(r, m) =>
                  /\ s.nodes[n].pos = r.nodes[m].pos
                  /\ s.conns[n].idx = r.conns[m].idx
                  /\ PlacesOf(s, s.conns[n].wire) = PlacesOf(r, r.conns[m].wire)

\* C25: saving a scene reached by edits and loading the result into an empty
\* scene gives the same nodes, the same partition of the wires into nets,
\* the same junction flags and connected sets and the same bindings
C25_Original == SameScene(Scene, RoundTrip(Scene))


\* the items of the press-time snapshot that are selected
SnapshotItems == drag.sel \cap DOMAIN drag.init

\* some item of the snapshot was away from its snapshot position when the
\* release came
EndedAway == \E item \in SnapshotItems : ItemPos(last.pre, item) # drag.init[item]

\* the history holds exactly one command more than before the call
OnePushed ==
    /\ undoStack.index = last.pre.undoStack.index + 1
    /\ Len(undoStack.cmds) = undoStack.index
    /\ SubSeq(undoStack.cmds, 1, last.pre.undoStack.index)
           = SubSeq(last.pre.undoStack.cmds, 1, last.pre.undoStack.index)

UndoAfterDrag == last.op = "undo" /\ last.b.afterDrag

\* every item of the press-time snapshot is at its snapshot position
AtSnapshot == \A item \in DOMAIN drag.init : ItemPos(Scene, item) = drag.init[item]

\* C27: after a drag (press, pointer moves, release) followed by one undo,
\* every dragged item is at the position the press-time snapshot holds for it
C27_Original == UndoAfterDrag => AtSnapshot

\* C27 amended: the same, for a drag whose release pushed the move command
C27_UndoRestoresSnapshot == UndoAfterDrag /\ last.b.pushed = 1 => AtSnapshot

\* an undo after a drag that moved a node bound to a wire
C27_Witness ==
    /\ UndoAfterDrag
    /\ last.b.pushed = 1
    /\ \E n \in Nodes : NodeItem(n) \in DOMAIN drag.init /\ conns[n].wire # NoWire


\* the call is one on the item list with an item that is not null
ItemCall(op) == last.op = op /\ last.a # NoItem

\* the keep-alive list before the call is a prefix of the list after it
KeptSince ==
    /\ Len(keepAlive) >= Len(last.pre.keepAlive)
    /\ SubSeq(keepAlive, 1, Len(last.pre.keepAlive)) = last.pre.keepAlive

\* C28: an item passed to removeItem is in the keep-alive list from the
\* removal on, no call takes an item out of that list before the deferred
\* clear runs, exactly one deferred clear is pending whenever the list is not
\* empty, and the list is empty after the clear has run
C28_KeepAlive ==
    /\ ItemCall("removeItem") => InSeq(keepAlive, last.a)
    /\ last.op \in {"addItem", "removeItem"} => KeptSince
    /\ keepAlive # <<>> => timers = 1
    /\ last.op = "timer" => keepAlive = <<>>

\* the second removal of one turn: two items are kept, one clear is pending
C28_Witness ==
    /\ ItemCall("removeItem")
    /\ last.pre.keepAlive # <<>>
    /\ Len(keepAlive) = 2
    /\ timers = 1

\* C29: removeItem emits itemRemoved and returns true only if the item was
\* in the item list before the call, addItem emits itemAdded only if the
\* item was added, and a call with a null item emits nothing
C29_Original ==
    /\ last.op = "removeItem" /\ (last.b.emitted = "itemRemoved" \/ last.b.ret)
           => InSeq(last.pre.items, last.a)
    /\ last.op = "addItem" /\ last.b.emitted = "itemAdded"
           => itemList = Append(last.pre.items, last.a)
    /\ last.op \in {"addItem", "removeItem"} /\ last.a = NoItem => last.b.emitted = ""


\* the nets of the net list that hold no wire
EmptyNets == {k \in 1..Len(nets) : netw[nets[k]] = <<>>}

\* C30: after an edit call has returned, the net list holds no net with
\* zero wires
C30_Original == last.op # "init" => EmptyNets = {}


\* the call is wirePointMovedByUser(W, i) with i an interior index of W
InteriorMove ==
    /\ last.op = "userMoved"
    /\ 0 < last.b
    /\ last.b < Count(last.pre.wires[last.a]) - 1

\* the junction flags of the points of w
JunctionFlags(w) == [k \in 1..Len(w.pts) |-> w.pts[k].j]

\* every wire has the junction flags, the connected set and the net it had
\* when the call was entered, and the nets are the same
SameWireRelations ==
    /\ \A w \in Wires :
           /\ JunctionFlags(wires[w]) = JunctionFlags(last.pre.wires[w])
           /\ wires[w].conn = last.pre.wires[w].conn
           /\ wires[w].net = last.pre.wires[w].net
    /\ nets = last.pre.nets
    /\ netw = last.pre.netw

FinishedDraft == RemoveLastPoint(last.pre.wires[last.a])

\* the call is a double click that finalizes the drawn wire: after the
\* provisional point is dropped the last point of the wire lies on a
\* connector or on another wire
FinalizeSucceeds ==
    /\ last.op = "doubleClick"
    /\ last.a # NoWire
    /\ Count(last.pre.wires[last.a]) > 1
    /\ ~WireIsFloating([last.pre EXCEPT !.wires[last.a] = FinishedDraft], last.a)

\* the last point of wire w, in scene coordinates
LastPointOf(w) == AbsAt(wires[w], Count(wires[w]) - 1)

\* the installed wires other than w the last point of w lies on
HostsOfLastPoint(w) ==
    {x \in Wires : x # w /\ wires[x].st = "in" /\ PointIsOnWire(wires[x], LastPointOf(w))}

\* the nets of the net list that hold wire w
NetsHolding(w) == {k \in 1..Len(nets) : InSeq(netw[nets[k]], w)}

\* C32: when finalizing a drawn wire W succeeds, W's last point is a
\* junction and W shares the net of every other wire the point lies on, W
\* is simplified and installed in exactly one net, and no wire is in
\* progress any more
C32_FinalizeJoins ==
    FinalizeSucceeds =>
        /\ \A x \in HostsOfLastPoint(last.a) :
               /\ wires[last.a].pts[Count(wires[last.a])].j
               /\ wires[last.a].net = wires[x].net
        /\ Simplify(wires[last.a]) = wires[last.a]
        /\ wires[last.a].st = "in"
        /\ Cardinality(NetsHolding(last.a)) = 1
        /\ newWire = NoWire

\* a finalize that ends the drawn wire on another wire
C32_Witness == FinalizeSucceeds /\ HostsOfLastPoint(last.a) # {}


\* the call is setMode with the mode the scene is already in
SetModeSame == last.op = "setMode" /\ last.b.requested = last.b.old

\* C33: a wire is in progress only in wire mode; there is none after setMode
\* has left wire mode and after a press in normal mode; setMode called with
\* the current mode changes nothing and emits no modeChanged
C33_WireOnlyInWireMode ==
    /\ newWire # NoWire => mode = "wire"
    /\ last.op = "setMode" /\ last.b.old = "wire" /\ last.b.requested # "wire"
           => newWire = NoWire /\ mode = last.b.requested
    /\ last.op = "press" /\ mode = "normal" => newWire = NoWire
    /\ SetModeSame =>
           /\ Scene = last.pre
           /\ mode = last.b.old
           /\ newWire = last.a
           /\ ~last.b.emitted

\* setMode(wire) called in wire mode while a wire is being drawn
C33_Witness == SetModeSame /\ newWire # NoWire


\* the connectors of the scene that are bound to a wire
BoundNodes == {n \in Nodes : nodes[n].in /\ conns[n].wire # NoWire}

\* C34: the point index of every bound connector is a valid index of the
\* point list of its wire
C34_Original ==
    \A n \in BoundNodes : 0 <= conns[n].idx /\ conns[n].idx < Count(wires[conns[n].wire])


\* C35: no two distinct connectors are bound to the same point of the same
\* wire
C35_Original ==
    \A n \in BoundNodes : \A m \in BoundNodes : conns[n] = conns[m] => n = m


\* the connectors wirePointMovedByUser(W, i) has bound to W because they sit
\* on the position of point i
BoundByMove ==
    {n \in BoundNodes :
        /\ conns[n] # last.pre.conns[n]
        /\ conns[n].wire = last.a
        /\ ScenePos(Scene, n) = AbsAt(wires[last.a], last.b)}

\* C36: a connector that wirePointMovedByUser(W, i) binds at the position of
\* point i is bound with the index i
C36_Original == last.op = "userMoved" => \A n \in BoundByMove : conns[n].idx = last.b


\* what a call of wirePointMovedByUser can change, without the order of the
\* wires inside a net: the nets with their identity and wires, the net each
\* wire points to, every connected set, junction flag and connector binding
Relations(s) ==
    [nets  |-> {<<s.nets[k], SeqSet(s.netw[s.nets[k]])>> : k \in 1..Len(s.nets)},
     net   |-> [w \in Wires |-> s.wires[w].net],
     conn  |-> [w \in Wires |-> s.wires[w].conn],
     flags |-> [w \in Wires |-> JunctionFlags(s.wires[w])],
     conns |-> s.conns]

\* C37: a second wirePointMovedByUser(W, i) right after the first, with no
\* geometry change in between, leaves nets, connected sets, junction flags
\* and connector bindings as the first call left them
C37_Original ==
    last.op = "userMoved" =>
        Relations(WirePointMovedByUser(Scene, last.a, last.b)) = Relations(Scene)


\* updateNodeConnections(n) on scene s changed nothing but the connector of
\* n, and that one only if it was unbound; a new binding is to an end point
\* of a wire of the scene that lies on the connector, is no junction and had
\* no other connector bound to it
UpdateCallOk(s, n) ==
    LET t == UpdateNodeConnections(s, n)
        c == t.conns[n]
    IN  /\ [t EXCEPT !.conns[n] = s.conns[n]] = s
        /\ s.conns[n].wire # NoWire => c = s.conns[n]
        /\ c # s.conns[n] =>
               /\ s.wires[c.wire].st = "in"
               /\ IsEndIndex(s.wires[c.wire], c.idx)
               /\ AbsAt(s.wires[c.wire], c.idx) = ScenePos(s, n)
               /\ ~s.wires[c.wire].pts[c.idx + 1].j
               /\ \A m \in Nodes : m # n /\ s.nodes[m].in => s.conns[m] # c

\* every call of updateNodeConnections in the loop over the moved items
RECURSIVE UpdateCallsOk(_, _)
UpdateCallsOk(s, items) ==
    IF items = <<>> THEN TRUE
    ELSE IF IsNode(Head(items))
    THEN /\ UpdateCallOk(s, Head(items)[2])
         /\ UpdateCallsOk(UpdateNodeConnections(s, Head(items)[2]), Tail(items))
    ELSE UpdateCallsOk(s, Tail(items))

\* C38: updateNodeConnections, run for each moved node at the release of a
\* drag, changes only unbound connectors of that node and binds one only to
\* a first or last wire point at the connector's position that is no
\* junction and has no other connector; bound connectors keep their binding
C38_UpdateBindsFreeEnds ==
    last.op = "release" => UpdateCallsOk(last.b.before, last.b.items)

\* the release of a drag bound the unbound connector of a moved node
C38_Witness ==
    /\ last.op = "release"
    /\ \E k \in 1..Len(last.b.items) :
           /\ IsNode(last.b.items[k])
           /\ last.b.before.conns[last.b.items[k][2]].wire = NoWire
           /\ conns[last.b.items[k][2]].wire # NoWire



=============================================================================
